---- MODULE Spec2Model ----
(***************************************************************************)
(* Crossword extraction pipeline of crossword-collab                       *)
(* (api/parse-crossword: transformLandingAIResponse and its parsers) and   *)
(* the CrosswordGrid component's cell selection.                           *)
(*                                                                         *)
(* Text is modelled character by character: a string is a sequence of     *)
(* one-character strings, so that substring tests, digit scans, parseInt,  *)
(* Number and the "row,col" key formatting are computed, not assumed.      *)
(* Markup that the code takes apart with the <tr>/<td> and "Row n:"        *)
(* patterns is given as the list of elements those patterns match.         *)
(***************************************************************************)
EXTENDS Integers, Sequences, FiniteSets

VARIABLES
    pc,     \* position of the invocation: "call" before it runs, "done" after
    call,   \* the invocation: [fn |-> name of the function, args |-> its arguments]
    ret,    \* its outcome: [error |-> BOOLEAN, value |-> the value returned]
    loc,    \* parseCluesFromText while it runs: its loop positions and local variables
    puzzle,         \* CrosswordGrid: the puzzle prop [gridSize, blackCells]
    selectedCell,   \* CrosswordGrid: useState selectedCell, NoCell for null
    direction,      \* CrosswordGrid: useState direction
    sent,           \* CrosswordGrid: the updateCell call issued last, NoWrite for none
    store,          \* the realtime database: [puzzles |-> id -> puzzle, shareCodes |-> code -> id]
    queue,          \* per client, the set() calls issued and not yet applied, oldest first
    procs,          \* per client, the async service call in progress and its local variables
    puzzleData,     \* Verify page: useState puzzleData [gridSize, blackCells, clueNumbers]
    editMode        \* Verify page: useState editMode

storeVars == <<store, queue, procs>>
verifyVars == <<puzzleData, editMode>>

vars == <<pc, call, ret, loc, puzzle, selectedCell, direction, sent, store, queue, procs,
          puzzleData, editMode>>

(***************************************************************************)
(* Bounds of the explored inputs.                                          *)
(***************************************************************************)
MaxWidth == 3
MaxHeight == 3
MaxBlack == 2
MaxFigLines == 4
MaxTableRows == 3
MaxChunks == 4

(***************************************************************************)
(* Strings.                                                                *)
(***************************************************************************)
DigitChars == {"0", "1", "2", "3", "4", "5", "6", "7", "8", "9"}

DigitVal(ch) ==
    CASE ch = "0" -> 0 [] ch = "1" -> 1 [] ch = "2" -> 2 [] ch = "3" -> 3
      [] ch = "4" -> 4 [] ch = "5" -> 5 [] ch = "6" -> 6 [] ch = "7" -> 7
      [] ch = "8" -> 8 [] ch = "9" -> 9

DigitChar(d) ==
    CASE d = 0 -> "0" [] d = 1 -> "1" [] d = 2 -> "2" [] d = 3 -> "3"
      [] d = 4 -> "4" [] d = 5 -> "5" [] d = 6 -> "6" [] d = 7 -> "7"
      [] d = 8 -> "8" [] d = 9 -> "9"

\* parseInt / Number of a string of decimal digits
RECURSIVE ParseInt(_)
ParseInt(s) ==
    IF s = <<>> THEN 0
    ELSE 10 * ParseInt(SubSeq(s, 1, Len(s) - 1)) + DigitVal(s[Len(s)])

\* `${n}` for a non-negative integer
RECURSIVE NumToString(_)
NumToString(n) ==
    IF n < 10 THEN <<DigitChar(n)>>
    ELSE NumToString(n \div 10) \o <<DigitChar(n % 10)>>

\* the object key `${r},${c}`
PosKey(r, c) == NumToString(r) \o <<",">> \o NumToString(c)

\* obj[key] = value on a Record<string, T>
Put(obj, key, value) ==
    [k \in DOMAIN obj \cup {key} |-> IF k = key THEN value ELSE obj[k]]

EmptyObj == [k \in {} |-> 0]

\* parseCluesFromText is not running
NoLocals ==
    [chunk |-> 0, lineNo |-> 0, read |-> 0, line |-> <<>>,
     currentDirection |-> "none", lastClueNum |-> <<>>, lastClueDirection |-> "none",
     acrossClues |-> EmptyObj, downClues |-> EmptyObj]

ParserIdle == loc = NoLocals

\* no CrosswordGrid is mounted
NoCell == [row |-> -1, col |-> -1]

NoPuzzle == [gridSize |-> <<0, 0>>, blackCells |-> <<>>]

NoWrite == [row |-> -1, col |-> -1, letter |-> <<>>, userId |-> <<>>]

GridIdle ==
    puzzle = NoPuzzle /\ selectedCell = NoCell /\ direction = "across" /\ sent = NoWrite

\* an empty database, no client, no call in progress
EmptyStore == [puzzles |-> EmptyObj, shareCodes |-> EmptyObj]

StoreIdle == store = EmptyStore /\ queue = EmptyObj /\ procs = EmptyObj

\* no Verify page is mounted
NoPuzzleData == [gridSize |-> <<0, 0>>, blackCells |-> <<>>, clueNumbers |-> EmptyObj]

VerifyIdle == puzzleData = NoPuzzleData /\ editMode = "none"

UpperChars == <<"A", "B", "C", "D", "E", "F", "G", "H", "I", "J", "K", "L", "M",
                "N", "O", "P", "Q", "R", "S", "T", "U", "V", "W", "X", "Y", "Z">>
LowerChars == <<"a", "b", "c", "d", "e", "f", "g", "h", "i", "j", "k", "l", "m",
                "n", "o", "p", "q", "r", "s", "t", "u", "v", "w", "x", "y", "z">>

IsUpper(ch) == \E i \in DOMAIN UpperChars : UpperChars[i] = ch
IsLower(ch) == \E i \in DOMAIN LowerChars : LowerChars[i] = ch
ToLower(ch) ==
    IF IsUpper(ch) THEN LowerChars[CHOOSE i \in DOMAIN UpperChars : UpperChars[i] = ch]
    ELSE ch
ToUpper(ch) ==
    IF IsLower(ch) THEN UpperChars[CHOOSE i \in DOMAIN LowerChars : LowerChars[i] = ch]
    ELSE ch
LowerCase(s) == [i \in DOMAIN s |-> ToLower(s[i])]

\* \s
IsSpace(ch) == ch \in {" ", "\t", "\n"}

\* String.prototype.includes
Includes(s, sub) ==
    \E i \in 1..(Len(s) - Len(sub) + 1) : SubSeq(s, i, i + Len(sub) - 1) = sub

\* String.prototype.trim
Trim(s) ==
    IF \A i \in DOMAIN s : IsSpace(s[i]) THEN <<>>
    ELSE LET first == CHOOSE i \in DOMAIN s :
                         ~IsSpace(s[i]) /\ \A j \in 1..(i - 1) : IsSpace(s[j])
             last == CHOOSE i \in DOMAIN s :
                         ~IsSpace(s[i]) /\ \A j \in (i + 1)..Len(s) : IsSpace(s[j])
         IN  SubSeq(s, first, last)

\* String.prototype.split on a one-character separator
RECURSIVE Split(_, _)
Split(s, sep) ==
    IF \A i \in DOMAIN s : s[i] # sep THEN <<s>>
    ELSE LET at == CHOOSE i \in DOMAIN s : s[i] = sep /\ \A j \in 1..(i - 1) : s[j] # sep
         IN  <<SubSeq(s, 1, at - 1)>> \o Split(SubSeq(s, at + 1, Len(s)), sep)

AllDigits(s) == s # <<>> /\ \A i \in DOMAIN s : s[i] \in DigitChars

(***************************************************************************)
(* deriveCluePositions                                                     *)
(***************************************************************************)
\* a test that takes the entries of blackCells as [col, row]
isBlackTransposed(blackCells, r, c) ==
    \E i \in 1..Len(blackCells) : blackCells[i][1] = c /\ blackCells[i][2] = r

isBlack(blackCells, r, c) ==
    \E i \in 1..Len(blackCells) : blackCells[i][1] = r /\ blackCells[i][2] = c

\* the cells visited by "for r < height; for c < width", in that order
ScanOrder(width, height) ==
    [k \in 1..(width * height) |-> <<(k - 1) \div width, (k - 1) % width>>]

\* a start test that forgets to look at the right neighbour
IsAcrossStartNoRight(width, blackCells, cell) ==
    LET r == cell[1]
        c == cell[2]
    IN  ~isBlack(blackCells, r, c) /\ (c = 0 \/ isBlack(blackCells, r, c - 1))

IsAcrossStart(width, blackCells, cell) ==
    LET r == cell[1]
        c == cell[2]
        leftIsEdgeOrBlack == c = 0 \/ isBlack(blackCells, r, c - 1)
        hasRight == c + 1 < width /\ ~isBlack(blackCells, r, c + 1)
    IN  ~isBlack(blackCells, r, c) /\ leftIsEdgeOrBlack /\ hasRight

IsDownStart(height, blackCells, cell) ==
    LET r == cell[1]
        c == cell[2]
        topIsEdgeOrBlack == r = 0 \/ isBlack(blackCells, r - 1, c)
        hasBelow == r + 1 < height /\ ~isBlack(blackCells, r + 1, c)
    IN  ~isBlack(blackCells, r, c) /\ topIsEdgeOrBlack /\ hasBelow

acrossStarts(gridSize, blackCells) ==
    LET Start(cell) == IsAcrossStart(gridSize[1], blackCells, cell)
    IN  SelectSeq(ScanOrder(gridSize[1], gridSize[2]), Start)

downStarts(gridSize, blackCells) ==
    LET Start(cell) == IsDownStart(gridSize[2], blackCells, cell)
    IN  SelectSeq(ScanOrder(gridSize[1], gridSize[2]), Start)

\* a sort with the comparator reversed: (a, b) => b - a
RECURSIVE SortedNumsDescending(_)
SortedNumsDescending(keys) ==
    IF keys = {} THEN <<>>
    ELSE LET m == CHOOSE k \in keys : \A j \in keys : ParseInt(k) >= ParseInt(j)
         IN  <<ParseInt(m)>> \o SortedNumsDescending(keys \ {m})

\* Object.keys(clues).map(Number).sort((a, b) => a - b)
RECURSIVE SortedNums(_)
SortedNums(keys) ==
    IF keys = {} THEN <<>>
    ELSE LET m == CHOOSE k \in keys : \A j \in keys : ParseInt(k) <= ParseInt(j)
         IN  <<ParseInt(m)>> \o SortedNums(keys \ {m})

\* acrossStarts.forEach(([r, c], i) => { if (i < acrossNums.length) ... })
RECURSIVE AssignAcross(_, _, _, _)
AssignAcross(clueNumbers, starts, nums, i) ==
    IF i > Len(starts) THEN clueNumbers
    ELSE AssignAcross(
            IF i <= Len(nums)
            THEN Put(clueNumbers, PosKey(starts[i][1], starts[i][2]), nums[i])
            ELSE clueNumbers,
            starts, nums, i + 1)

\* a down pass that overwrites what the across pass wrote
DownAlwaysWrites(clueNumbers, key) == TRUE

\* the guard of the down pass: clueNumbers[`${r},${c}`] === undefined
DownMayWrite(clueNumbers, key) == key \notin DOMAIN clueNumbers

\* downStarts.forEach(([r, c], i) => { if (i < downNums.length) ... })
RECURSIVE AssignDown(_, _, _, _)
AssignDown(clueNumbers, starts, nums, i) ==
    IF i > Len(starts) THEN clueNumbers
    ELSE AssignDown(
            IF i <= Len(nums)
               /\ DownMayWrite(clueNumbers, PosKey(starts[i][1], starts[i][2]))
            THEN Put(clueNumbers, PosKey(starts[i][1], starts[i][2]), nums[i])
            ELSE clueNumbers,
            starts, nums, i + 1)

deriveCluePositions(gridSize, blackCells, acrossClues, downClues) ==
    LET width == gridSize[1]
        height == gridSize[2]
        acrossNums == SortedNums(DOMAIN acrossClues)
        downNums == SortedNums(DOMAIN downClues)
        afterAcross == AssignAcross(EmptyObj, acrossStarts(gridSize, blackCells),
                                    acrossNums, 1)
    IN  IF width = 0 \/ height = 0 THEN EmptyObj
        ELSE AssignDown(afterAcross, downStarts(gridSize, blackCells), downNums, 1)

(***************************************************************************)
(* Invocations of deriveCluePositions on bounded arguments.                *)
(***************************************************************************)
RECURSIVE SetToSeq(_)
SetToSeq(S) ==
    IF S = {} THEN <<>>
    ELSE LET x == CHOOSE y \in S : TRUE IN <<x>> \o SetToSeq(S \ {x})

GridCells(width, height) == (0..(height - 1)) \X (0..(width - 1))

\* clue keys as parseCluesFromText stores them: the digits matched by (\d+)
DeriveClueKeys == {<<"1">>, <<"2">>, <<"0", "2">>}

DeriveClueObjs == UNION {[keys -> {<<"t">>}] : keys \in SUBSET DeriveClueKeys}

\* at most MaxBlack black cells, all inside the grid
BlackLists(width, height) ==
    {SetToSeq(B) : B \in {X \in SUBSET GridCells(width, height) : Cardinality(X) <= MaxBlack}}

InitDerive ==
    /\ pc = "call"
    /\ \E w \in 0..MaxWidth, h \in 0..MaxHeight :
          \E B \in BlackLists(w, h), a \in DeriveClueObjs, d \in DeriveClueObjs :
             call = [fn |-> "deriveCluePositions",
                     args |-> [gridSize |-> <<w, h>>, blackCells |-> B,
                               acrossClues |-> a, downClues |-> d]]
    /\ ret = [error |-> FALSE, value |-> EmptyObj]
    /\ ParserIdle
    /\ StoreIdle
    /\ VerifyIdle
    /\ GridIdle

Derive ==
    /\ pc = "call"
    /\ call.fn = "deriveCluePositions"
    /\ ret' = [error |-> FALSE,
               value |-> deriveCluePositions(call.args.gridSize, call.args.blackCells,
                                             call.args.acrossClues, call.args.downClues)]
    /\ pc' = "done"
    /\ UNCHANGED <<call, loc, puzzle, selectedCell, direction, sent, storeVars, verifyVars>>

NextDerive == Derive

SpecDerive == InitDerive /\ [][NextDerive]_vars

(***************************************************************************)
(* Properties of deriveCluePositions.  The start cells, their reading      *)
(* order and "the i-th smallest number" are stated here without the        *)
(* operators that model the code.                                          *)
(***************************************************************************)
BlackSet(blackCells) == {<<blackCells[i][1], blackCells[i][2]>> : i \in DOMAIN blackCells}

AcrossStartCell(gridSize, black, cell) ==
    /\ cell \notin black
    /\ (cell[2] = 0 \/ <<cell[1], cell[2] - 1>> \in black)
    /\ cell[2] + 1 < gridSize[1]
    /\ <<cell[1], cell[2] + 1>> \notin black

DownStartCell(gridSize, black, cell) ==
    /\ cell \notin black
    /\ (cell[1] = 0 \/ <<cell[1] - 1, cell[2]>> \in black)
    /\ cell[1] + 1 < gridSize[2]
    /\ <<cell[1] + 1, cell[2]>> \in GridCells(gridSize[1], gridSize[2]) \ black

ReadsBefore(a, b) == a[1] < b[1] \/ (a[1] = b[1] /\ a[2] < b[2])

\* 1-based position of a start cell among the across (down) starts, in reading order
AcrossRank(gridSize, black, cell) ==
    1 + Cardinality({x \in GridCells(gridSize[1], gridSize[2]) :
                        AcrossStartCell(gridSize, black, x) /\ ReadsBefore(x, cell)})

DownRank(gridSize, black, cell) ==
    1 + Cardinality({x \in GridCells(gridSize[1], gridSize[2]) :
                        DownStartCell(gridSize, black, x) /\ ReadsBefore(x, cell)})

\* v is the i-th smallest of the numbers Number(k), k a key of the clue object
IsIthSmallest(v, i, keys) ==
    /\ Cardinality({k \in keys : ParseInt(k) < v}) < i
    /\ i <= Cardinality({k \in keys : ParseInt(k) <= v})

SeqRange(s) == {s[i] : i \in DOMAIN s}

DGrid == call.args.gridSize
DBlack == BlackSet(call.args.blackCells)
DCells == GridCells(DGrid[1], DGrid[2])
DAcrossKeys == DOMAIN call.args.acrossClues
DDownKeys == DOMAIN call.args.downClues
PairedAcross(cell) ==
    /\ AcrossStartCell(DGrid, DBlack, cell)
    /\ AcrossRank(DGrid, DBlack, cell) <= Cardinality(DAcrossKeys)
PairedDown(cell) ==
    /\ DownStartCell(DGrid, DBlack, cell)
    /\ DownRank(DGrid, DBlack, cell) <= Cardinality(DDownKeys)
CellKey(cell) == PosKey(cell[1], cell[2])

\* C8: a cell is an across-start iff it is non-black, its left neighbour is off-grid
\* or black and its right neighbour is in-grid and non-black; a down-start iff it is
\* non-black, its top neighbour is off-grid or black and its bottom neighbour is
\* in-grid and non-black.  Only such cells are numbered, and on the 3x3 grid whose
\* only black cell is the centre the across-starts are exactly (0,0),(2,0) and the
\* down-starts exactly (0,0),(0,2).
C8_StartCells ==
    LET as == SeqRange(acrossStarts(DGrid, call.args.blackCells))
        ds == SeqRange(downStarts(DGrid, call.args.blackCells))
    IN  /\ as = {x \in DCells : AcrossStartCell(DGrid, DBlack, x)}
        /\ ds = {x \in DCells : DownStartCell(DGrid, DBlack, x)}
        /\ (DGrid = <<3, 3>> /\ DBlack = {<<1, 1>>}) =>
              /\ as = {<<0, 0>>, <<2, 0>>}
              /\ ds = {<<0, 0>>, <<0, 2>>}
        /\ pc = "done" =>
              /\ DOMAIN ret.value \subseteq
                    {CellKey(x) : x \in {y \in DCells :
                        AcrossStartCell(DGrid, DBlack, y) \/ DownStartCell(DGrid, DBlack, y)}}
              /\ \A x \in DCells : PairedAcross(x) => CellKey(x) \in DOMAIN ret.value

\* C8 witness: the 3x3 centre-black grid derived with two Across and two Down numbers:
\* exactly the cells (0,0), (2,0) and (0,2) are numbered.
C8_Witness ==
    /\ pc = "done"
    /\ DGrid = <<3, 3>>
    /\ DBlack = {<<1, 1>>}
    /\ Cardinality(DAcrossKeys) = 2
    /\ Cardinality(DDownKeys) = 2
    /\ DOMAIN ret.value = {PosKey(0, 0), PosKey(2, 0), PosKey(0, 2)}

\* C9: the i-th across-start in reading order receives the i-th smallest Across
\* number for every i up to min(#across-starts, #Across numbers); across-starts
\* beyond that receive no across number, numbers beyond that are assigned nowhere,
\* and no error is raised; the same pairing holds for down-starts and Down numbers
\* on every down-start that did not receive an across number.
C9_PositionalPairing ==
    pc = "done" =>
        /\ ~ret.error
        /\ DOMAIN ret.value \subseteq {CellKey(x) : x \in DCells}
        /\ \A x \in DCells :
              /\ PairedAcross(x) =>
                    /\ CellKey(x) \in DOMAIN ret.value
                    /\ IsIthSmallest(ret.value[CellKey(x)],
                                     AcrossRank(DGrid, DBlack, x), DAcrossKeys)
              /\ (~PairedAcross(x) /\ PairedDown(x)) =>
                    /\ CellKey(x) \in DOMAIN ret.value
                    /\ IsIthSmallest(ret.value[CellKey(x)],
                                     DownRank(DGrid, DBlack, x), DDownKeys)
              /\ (~PairedAcross(x) /\ ~PairedDown(x)) => CellKey(x) \notin DOMAIN ret.value

\* C9 witness: a derivation with more across-starts than Across numbers and more
\* Down numbers than down-starts: the first across-start is numbered, a later one
\* is left without a number.
C9_Witness ==
    /\ pc = "done"
    /\ Cardinality(DAcrossKeys) = 1
    /\ Cardinality(DDownKeys) >
          Cardinality({x \in DCells : DownStartCell(DGrid, DBlack, x)})
    /\ \E x, y \in DCells :
          /\ PairedAcross(x)
          /\ CellKey(x) \in DOMAIN ret.value
          /\ AcrossStartCell(DGrid, DBlack, y)
          /\ AcrossRank(DGrid, DBlack, y) = 2
          /\ CellKey(y) \notin DOMAIN ret.value

\* C10: a cell that is both an across-start paired with an Across number and a
\* down-start paired with a Down number holds the Across number; a Down number is
\* written only to a cell that has no number after the across pass, and the Down
\* number skipped there is not handed to a later down-start: the j-th down-start
\* that is written holds the j-th smallest Down number.
C10_AcrossPriority ==
    pc = "done" =>
        \A x \in DCells :
            /\ (PairedAcross(x) /\ PairedDown(x)) =>
                  /\ CellKey(x) \in DOMAIN ret.value
                  /\ IsIthSmallest(ret.value[CellKey(x)],
                                   AcrossRank(DGrid, DBlack, x), DAcrossKeys)
            /\ (PairedDown(x) /\ CellKey(x) \in DOMAIN ret.value
                  /\ ~IsIthSmallest(ret.value[CellKey(x)],
                                    DownRank(DGrid, DBlack, x), DDownKeys)) =>
                  PairedAcross(x)

\* C10 witness: cell (0,0) is paired in both directions with different numbers and
\* holds the Across one, and a later down-start holds the second Down number.
C10_Witness ==
    /\ pc = "done"
    /\ \E x, y \in DCells :
          /\ PairedAcross(x) /\ PairedDown(x)
          /\ ~IsIthSmallest(ret.value[CellKey(x)], DownRank(DGrid, DBlack, x), DDownKeys)
          /\ ~PairedAcross(y) /\ PairedDown(y)
          /\ DownRank(DGrid, DBlack, y) = DownRank(DGrid, DBlack, x) + 1
          /\ IsIthSmallest(ret.value[CellKey(y)], DownRank(DGrid, DBlack, y), DDownKeys)
          /\ ~IsIthSmallest(ret.value[CellKey(y)], DownRank(DGrid, DBlack, x), DDownKeys)

(***************************************************************************)
(* parseFigureDescription                                                  *)
(*                                                                         *)
(* The description (the text inside the <::...: figure::> wrapper, or the  *)
(* markup itself without one) is the list of its lines.  A line the pattern*)
(* /Row\s+(\d+):\s*(.+)/ matches is [kind |-> "row", cells |-> the text    *)
(* captured by (.+)]; a line holding a size expression ("N x M",           *)
(* "N cells wide by M cells high") is [kind |-> "size", w |-> N, h |-> M]  *)
(* with N and M its digit strings; any other line is [kind |-> "text"].    *)
(***************************************************************************)
\* tenths of the row-doubling ratio 1.8 (rows >= cols * 1.8)
DoubledRatioTenths == 18

\* while ((rowMatch = rowPattern.exec(description)) !== null) { ... }
ParsedRows(description) ==
    LET IsRow(line) == line.kind = "row"
        rowLines == SelectSeq(description, IsRow)
        cellsOf(cellsStr) ==
            LET parts == Split(cellsStr, ",") IN [i \in DOMAIN parts |-> Trim(parts[i])]
    IN  [i \in DOMAIN rowLines |-> cellsOf(rowLines[i].cells)]

\* /^\s*\d+\s*$/.test(c)
IsNumericToken(c) == AllDigits(Trim(c))

\* a detector that does not look at the odd-indexed rows
isDoubledIgnoringOdd(parsedRows) ==
    LET cols == Len(parsedRows[1])
        rowHasNumber == [i \in DOMAIN parsedRows |->
                            \E j \in DOMAIN parsedRows[i] : IsNumericToken(parsedRows[i][j])]
        evenWithNums == Cardinality({i \in DOMAIN parsedRows :
                                        (i - 1) % 2 = 0 /\ rowHasNumber[i]})
    IN  10 * Len(parsedRows) >= cols * DoubledRatioTenths /\ evenWithNums > 0

isDoubled(parsedRows) ==
    LET cols == Len(parsedRows[1])
        rowHasNumber == [i \in DOMAIN parsedRows |->
                            \E j \in DOMAIN parsedRows[i] : IsNumericToken(parsedRows[i][j])]
        evenWithNums == Cardinality({i \in DOMAIN parsedRows :
                                        (i - 1) % 2 = 0 /\ rowHasNumber[i]})
        oddWithNums == Cardinality({i \in DOMAIN parsedRows :
                                        (i - 1) % 2 = 1 /\ rowHasNumber[i]})
    IN  /\ 10 * Len(parsedRows) >= cols * DoubledRatioTenths
        /\ evenWithNums > 0
        /\ oddWithNums = 0

\* a filter that keeps the odd-indexed rows: parsedRows.filter((_, i) => i % 2 === 1)
OddIndexedRows(parsedRows) ==
    [k \in 1..(Len(parsedRows) \div 2) |-> parsedRows[2 * k]]

\* parsedRows.filter((_, i) => i % 2 === 0)
EvenIndexedRows(parsedRows) ==
    [k \in 1..((Len(parsedRows) + 1) \div 2) |-> parsedRows[2 * k - 1]]

effectiveRows(parsedRows) ==
    IF isDoubled(parsedRows) THEN EvenIndexedRows(parsedRows) ELSE parsedRows

\* the cells of the rows in the order of rows.forEach(row => row.cells.forEach(...))
RECURSIVE CellScan(_, _)
CellScan(rows, rowIdx) ==
    IF rowIdx >= Len(rows) THEN <<>>
    ELSE [j \in DOMAIN rows[rowIdx + 1] |->
             [row |-> rowIdx, col |-> j - 1, cell |-> rows[rowIdx + 1][j]]]
         \o CellScan(rows, rowIdx + 1)

\* /black/i.test(cell)
FigureCellIsBlack(cell) == Includes(LowerCase(cell), <<"b", "l", "a", "c", "k">>)

RECURSIVE FigureClueNumbers(_, _, _)
FigureClueNumbers(clueNumbers, scan, k) ==
    IF k > Len(scan) THEN clueNumbers
    ELSE FigureClueNumbers(
            IF IsNumericToken(scan[k].cell)
            THEN Put(clueNumbers, PosKey(scan[k].row, scan[k].col),
                     ParseInt(Trim(scan[k].cell)))
            ELSE clueNumbers,
            scan, k + 1)

\* description.match(/(\d+)\s*(?:x|cells?\s+wide\s+by)\s*(\d+)/i): the first size line
\* the size taken from the last size expression of the description
FallbackSizeOfLastMatch(description) ==
    LET IsSize(line) == line.kind = "size"
        sizes == SelectSeq(description, IsSize)
    IN  IF sizes = <<>> THEN <<0, 0>>
        ELSE <<ParseInt(sizes[Len(sizes)].w), ParseInt(sizes[Len(sizes)].h)>>

FallbackSize(description) ==
    LET IsSize(line) == line.kind = "size"
        sizes == SelectSeq(description, IsSize)
    IN  IF sizes = <<>> THEN <<0, 0>>
        ELSE <<ParseInt(sizes[1].w), ParseInt(sizes[1].h)>>

parseFigureDescription(description) ==
    LET parsedRows == ParsedRows(description)
        rows == effectiveRows(parsedRows)
        scan == CellScan(rows, 0)
        IsBlackEntry(e) == FigureCellIsBlack(e.cell)
        blackScan == SelectSeq(scan, IsBlackEntry)
    IN  IF Len(parsedRows) > 0
        THEN [gridSize |-> <<Len(rows[1]), Len(rows)>>,
              blackCells |-> [k \in DOMAIN blackScan |-> <<blackScan[k].row, blackScan[k].col>>],
              clueNumbers |-> FigureClueNumbers(EmptyObj, scan, 1),
              preFilledLetters |-> EmptyObj]
        ELSE [gridSize |-> FallbackSize(description),
              blackCells |-> <<>>,
              clueNumbers |-> EmptyObj,
              preFilledLetters |-> EmptyObj]

(***************************************************************************)
(* Invocations of parseFigureDescription on bounded descriptions.          *)
(***************************************************************************)
RowLine(cellsStr) == [kind |-> "row", cells |-> cellsStr, w |-> <<>>, h |-> <<>>]
SizeLine(n, m) == [kind |-> "size", cells |-> <<>>, w |-> n, h |-> m]
TextLine == [kind |-> "text", cells |-> <<>>, w |-> <<>>, h |-> <<>>]

\* row lines "1", "_", "1, 2", "_,_", "Black,7"; size expressions "15x13", "3 x 2";
\* a line of other text
FigureLines ==
    { RowLine(<<"1">>),
      RowLine(<<"_">>),
      RowLine(<<"1", ",", " ", "2">>),
      RowLine(<<"_", ",", "_">>),
      RowLine(<<"B", "l", "a", "c", "k", ",", "7">>),
      SizeLine(<<"1", "5">>, <<"1", "3">>),
      SizeLine(<<"3">>, <<"2">>),
      TextLine }

EmptyGrid == [gridSize |-> <<0, 0>>, blackCells |-> <<>>,
              clueNumbers |-> EmptyObj, preFilledLetters |-> EmptyObj]

InitFigure ==
    /\ pc = "call"
    /\ \E n \in 0..MaxFigLines : \E d \in [1..n -> FigureLines] :
          call = [fn |-> "parseFigureDescription", args |-> [description |-> d]]
    /\ ret = [error |-> FALSE, value |-> EmptyGrid]
    /\ ParserIdle
    /\ StoreIdle
    /\ VerifyIdle
    /\ GridIdle

ParseFigure ==
    /\ pc = "call"
    /\ call.fn = "parseFigureDescription"
    /\ ret' = [error |-> FALSE, value |-> parseFigureDescription(call.args.description)]
    /\ pc' = "done"
    /\ UNCHANGED <<call, loc, puzzle, selectedCell, direction, sent, storeVars, verifyVars>>

NextFigure == ParseFigure

SpecFigure == InitFigure /\ [][NextFigure]_vars

(***************************************************************************)
(* Properties of parseFigureDescription, structured-row path.              *)
(***************************************************************************)
FDesc == call.args.description
\* the texts captured from the "Row n:" lines, in order
FRowTexts == LET IsRow(line) == line.kind = "row"
                 rowLines == SelectSeq(FDesc, IsRow)
             IN  [i \in DOMAIN rowLines |-> rowLines[i].cells]
FRowCount == Len(FRowTexts)
\* tokens of a row text: one more than its commas
TokenCount(text) == 1 + Cardinality({i \in DOMAIN text : text[i] = ","})
\* the row text has a token made of digits only (whitespace around it aside)
HasNumericToken(text) ==
    \E i, j \in DOMAIN text :
        /\ i <= j
        /\ (i = 1 \/ text[i - 1] = ",")
        /\ (j = Len(text) \/ text[j + 1] = ",")
        /\ \A k \in i..j : text[k] \in DigitChars \cup {" "}
        /\ \E k \in i..j : text[k] \in DigitChars
        /\ \A k, l, m \in i..j :
              (k < l /\ l < m /\ text[k] \in DigitChars /\ text[m] \in DigitChars)
                 => text[l] \in DigitChars
DoublingExpected ==
    /\ FRowCount >= 1
    /\ 10 * FRowCount >= 18 * TokenCount(FRowTexts[1])
    /\ \E i \in 1..FRowCount : (i - 1) % 2 = 0 /\ HasNumericToken(FRowTexts[i])
    /\ \A i \in 1..FRowCount : (i - 1) % 2 = 1 => ~HasNumericToken(FRowTexts[i])
\* the 1-based parsed row that effective row r (0-based) comes from
SourceRow(r) == IF DoublingExpected THEN 2 * r + 1 ELSE r + 1
EvenIndexedCount == Cardinality({i \in 1..FRowCount : (i - 1) % 2 = 0})

\* C6: on the structured-row path the row-doubling correction fires iff
\* (parsed row count >= 1.8 x token count of the first parsed row) and some
\* even-indexed parsed row has a purely numeric token and no odd-indexed parsed row
\* has one; when it fires the effective rows are exactly the even-indexed parsed
\* rows in order, otherwise all parsed rows; gridSize is (token count of the first
\* effective row, effective row count).
C6_RowDoubling ==
    (pc = "done" /\ FRowCount >= 1) =>
        LET g == ret.value
            height == IF DoublingExpected THEN EvenIndexedCount ELSE FRowCount
        IN  /\ g.gridSize = <<TokenCount(FRowTexts[SourceRow(0)]), height>>
            /\ isDoubled(ParsedRows(FDesc)) <=> DoublingExpected
            \* each effective row is the parsed row SourceRow(r): its numeric tokens
            \* are the numbered cells of row r, its black tokens the black cells
            /\ \A r \in 0..(height - 1) :
                  LET toks == Split(FRowTexts[SourceRow(r)], ",")
                  IN  \A c \in 0..(Len(toks) - 1) :
                        /\ PosKey(r, c) \in DOMAIN g.clueNumbers
                              <=> AllDigits(Trim(toks[c + 1]))
                        /\ AllDigits(Trim(toks[c + 1]))
                              => g.clueNumbers[PosKey(r, c)] = ParseInt(Trim(toks[c + 1]))
                        /\ (<<r, c>> \in SeqRange(g.blackCells))
                              <=> Includes(LowerCase(toks[c + 1]), <<"b", "l", "a", "c", "k">>)
            /\ \A key \in DOMAIN g.clueNumbers :
                  \E r \in 0..(height - 1) :
                     \E c \in 0..(TokenCount(FRowTexts[SourceRow(r)]) - 1) : key = PosKey(r, c)

\* C6 witness: four parsed rows, the first with two tokens, numbers on an even-indexed
\* row only: the correction fired and the grid is 2 wide and 2 high, with the
\* third parsed row as row 1.
C6_Witness ==
    /\ pc = "done"
    /\ FRowCount = 4
    /\ TokenCount(FRowTexts[1]) = 2
    /\ DoublingExpected
    /\ HasNumericToken(FRowTexts[3])
    /\ ret.value.gridSize = <<2, 2>>
    /\ \E c \in 0..1 : PosKey(1, c) \in DOMAIN ret.value.clueNumbers

\* C7 as stated: when the correction fires the output height is exactly half the
\* parsed row count R, also for odd R, and it is R in every other structured-row case.
C7_HalfExactly ==
    (pc = "done" /\ FRowCount >= 1) =>
        IF DoublingExpected
        THEN 2 * ret.value.gridSize[2] = FRowCount
        ELSE ret.value.gridSize[2] = FRowCount

\* C7 amended: when the correction fires the output height is the number of
\* even-indexed parsed rows, ceil(R/2): R/2 for even R and (R+1)/2 for odd R; in
\* every other structured-row case it is R.
C7_HalfRoundedUp ==
    (pc = "done" /\ FRowCount >= 1) =>
        IF DoublingExpected
        THEN /\ 2 * ret.value.gridSize[2] \in {FRowCount, FRowCount + 1}
             /\ ret.value.gridSize[2] = EvenIndexedCount
        ELSE ret.value.gridSize[2] = FRowCount

\* C7 witness: three parsed rows of one token, a number on row 0 only: the
\* correction fired on an odd row count and the height is 2.
C7_Witness ==
    /\ pc = "done"
    /\ FRowCount = 3
    /\ DoublingExpected
    /\ ret.value.gridSize = <<1, 2>>

\* the positions of the size expressions in the description
FSizeLines == {i \in DOMAIN FDesc : FDesc[i].kind = "size"}

\* the value of a string of decimal digits
RECURSIVE DecimalValue(_)
DecimalValue(digits) ==
    IF digits = <<>> THEN 0
    ELSE 10 * DecimalValue(SubSeq(digits, 1, Len(digits) - 1))
           + (CHOOSE v \in 0..9 : DigitChar(v) = digits[Len(digits)])

\* C15: a description without any structured "Row n:" line yields no black cells
\* and no clue numbers, and its gridSize is (N, M) of the first size expression
\* ("NxM", "N x M", "N cells wide by M cells high") when there is one, (0, 0)
\* otherwise.
C15_FigureFallback ==
    (pc = "done" /\ FRowCount = 0) =>
        /\ ret.value.blackCells = <<>>
        /\ ret.value.clueNumbers = EmptyObj
        /\ IF FSizeLines = {}
           THEN ret.value.gridSize = <<0, 0>>
           ELSE LET first == CHOOSE i \in FSizeLines : \A j \in FSizeLines : i <= j
                IN  ret.value.gridSize =
                        <<DecimalValue(FDesc[first].w), DecimalValue(FDesc[first].h)>>

\* C15 witness: no row line, other text, then "3 x 2" before "15x13": gridSize [3, 2].
C15_Witness ==
    /\ pc = "done"
    /\ FRowCount = 0
    /\ Len(FDesc) = 3
    /\ FDesc[1] = TextLine
    /\ FDesc[2] = SizeLine(<<"3">>, <<"2">>)
    /\ FDesc[3] = SizeLine(<<"1", "5">>, <<"1", "3">>)
    /\ ret.value.gridSize = <<3, 2>>

(***************************************************************************)
(* parseTableMarkdown                                                      *)
(*                                                                         *)
(* The markup is the list of the row elements /<tr>(.*?)<\/tr>/gs finds,   *)
(* each the list of the cells /<td[^>]*>(.*?)<\/td>/gs finds in it.  A     *)
(* cell is [id |-> the text captured by /id="([^"]+)"/, <<>> when the      *)
(* pattern finds nothing, text |-> the cell with its tags removed].        *)
(* The grounding map is a function from identifiers to                     *)
(* [hasPosition, row, col].                                                *)
(***************************************************************************)
WordChar(ch) == IsUpper(ch) \/ IsLower(ch) \/ ch \in DigitChars \/ ch = "_"

\* cellContent.match(/^(\d+)/): the captured digits, <<>> when there is no match
LeadingDigits(s) ==
    IF s = <<>> \/ s[1] \notin DigitChars THEN <<>>
    ELSE LET n == CHOOSE k \in DOMAIN s :
                    /\ \A i \in 1..k : s[i] \in DigitChars
                    /\ (k = Len(s) \/ s[k + 1] \notin DigitChars)
         IN  SubSeq(s, 1, n)

\* cellContent.match(/\b([A-Z])\b/): positions of an isolated upper-case letter
IsolatedUpperAt(s) ==
    {i \in DOMAIN s :
        /\ IsUpper(s[i])
        /\ (i = 1 \/ ~WordChar(s[i - 1]))
        /\ (i = Len(s) \/ ~WordChar(s[i + 1]))}

Min(S) == CHOOSE x \in S : \A y \in S : x <= y

ContainsDarkOrBlack(cellContent) ==
    \/ Includes(cellContent, <<"d", "a", "r", "k">>)
    \/ Includes(cellContent, <<"b", "l", "a", "c", "k">>)

ContainsSquare(cellContent) == Includes(cellContent, <<"s", "q", "u", "a", "r", "e">>)

\* the cells in the order of rows.forEach((row, rowIndex) => cells.forEach((cell, colIndex) ...
RECURSIVE TableScan(_, _)
TableScan(rows, rowIndex) ==
    IF rowIndex >= Len(rows) THEN <<>>
    ELSE [j \in DOMAIN rows[rowIndex + 1] |->
             [rowIndex |-> rowIndex, colIndex |-> j - 1, cell |-> rows[rowIndex + 1][j]]]
         \o TableScan(rows, rowIndex + 1)

\* if (gridSize[0] === 0) gridSize[0] = cells.length, row after row
RECURSIVE TableWidth(_, _, _)
TableWidth(rows, rowIndex, width) ==
    IF rowIndex >= Len(rows) THEN width
    ELSE TableWidth(rows, rowIndex + 1,
                    IF width = 0 THEN Len(rows[rowIndex + 1]) ELSE width)

\* a size with height and width exchanged
TableGridSizeSwapped(rows) == <<Len(rows), TableWidth(rows, 0, 0)>>

TableGridSize(rows) == <<TableWidth(rows, 0, 0), Len(rows)>>

\* const cellGrounding = grounding[cellId]; if (cellGrounding?.position)
HasGroundedPosition(grounding, cellId) ==
    cellId \in DOMAIN grounding /\ grounding[cellId].hasPosition

\* one cell of the scan applied to [blackCells, clueNumbers, preFilledLetters]
TableCellStep(acc, entry, grounding) ==
    LET cellId == entry.cell.id
        cellContent == Trim(entry.cell.text)
        grounded == HasGroundedPosition(grounding, cellId)
        r == IF grounded THEN grounding[cellId].row ELSE entry.rowIndex
        c == IF grounded THEN grounding[cellId].col ELSE entry.colIndex
        clueNumMatch == LeadingDigits(cellContent)
        letters == IsolatedUpperAt(cellContent)
    IN  IF cellId = <<>> THEN acc        \* if (!idMatch) return
        ELSE [blackCells |->
                 IF ContainsDarkOrBlack(cellContent)
                 THEN Append(acc.blackCells, <<r, c>>) ELSE acc.blackCells,
              clueNumbers |->
                 IF clueNumMatch # <<>> /\ ~ContainsSquare(cellContent)
                 THEN Put(acc.clueNumbers, PosKey(r, c), ParseInt(clueNumMatch))
                 ELSE acc.clueNumbers,
              preFilledLetters |->
                 IF grounded /\ letters # {} /\ ~ContainsSquare(cellContent)
                 THEN Put(acc.preFilledLetters, PosKey(r, c), cellContent[Min(letters)])
                 ELSE acc.preFilledLetters]

RECURSIVE TableCells(_, _, _, _)
TableCells(acc, scan, k, grounding) ==
    IF k > Len(scan) THEN acc
    ELSE TableCells(TableCellStep(acc, scan[k], grounding), scan, k + 1, grounding)

parseTableMarkdown(rows, grounding) ==
    LET cells == TableCells([blackCells |-> <<>>, clueNumbers |-> EmptyObj,
                             preFilledLetters |-> EmptyObj],
                            TableScan(rows, 0), 1, grounding)
    IN  [gridSize |-> TableGridSize(rows),
         blackCells |-> cells.blackCells,
         clueNumbers |-> cells.clueNumbers,
         preFilledLetters |-> cells.preFilledLetters]

(***************************************************************************)
(* Invocations of parseTableMarkdown on bounded tables.                    *)
(***************************************************************************)
Cell(id, text) == [id |-> id, text |-> text]
NoId == <<>>
IdA == <<"a">>
IdB == <<"b">>
TxtBlack == <<"b", "l", "a", "c", "k">>
TxtDark == <<" ", "d", "a", "r", "k", " ">>
TxtOne == <<"1">>
TxtTwoA == <<"2", " ", "A">>
TxtThree == <<"3">>
TxtEmpty == <<>>

\* rows of 0, 1 and 2 cells, with and without identifiers
TableRows ==
    { <<>>,
      <<Cell(NoId, TxtBlack)>>,
      <<Cell(IdA, TxtOne)>>,
      <<Cell(IdB, TxtEmpty)>>,
      <<Cell(IdA, TxtBlack), Cell(IdB, TxtTwoA)>>,
      <<Cell(NoId, TxtThree), Cell(IdB, TxtDark)>> }

Position(r, c) == [hasPosition |-> TRUE, row |-> r, col |-> c]
NoPosition == [hasPosition |-> FALSE, row |-> 0, col |-> 0]

\* no entries; a and b placed; a placed, b without position; only b, off the scan
Groundings ==
    { [id \in {} |-> NoPosition],
      [id \in {IdA, IdB} |-> IF id = IdA THEN Position(0, 1) ELSE Position(2, 0)],
      [id \in {IdA, IdB} |-> IF id = IdA THEN Position(1, 1) ELSE NoPosition],
      [id \in {IdB} |-> Position(1, 1)] }

InitTable ==
    /\ pc = "call"
    /\ \E n \in 0..MaxTableRows : \E rows \in [1..n -> TableRows], g \in Groundings :
          call = [fn |-> "parseTableMarkdown", args |-> [rows |-> rows, grounding |-> g]]
    /\ ret = [error |-> FALSE, value |-> EmptyGrid]
    /\ ParserIdle
    /\ StoreIdle
    /\ VerifyIdle
    /\ GridIdle

ParseTable ==
    /\ pc = "call"
    /\ call.fn = "parseTableMarkdown"
    /\ ret' = [error |-> FALSE,
               value |-> parseTableMarkdown(call.args.rows, call.args.grounding)]
    /\ pc' = "done"
    /\ UNCHANGED <<call, loc, puzzle, selectedCell, direction, sent, storeVars, verifyVars>>

NextTable == ParseTable

SpecTable == InitTable /\ [][NextTable]_vars

(***************************************************************************)
(* Properties of parseTableMarkdown.                                       *)
(***************************************************************************)
TRows == call.args.rows
TGround == call.args.grounding
\* where the cell at scan position (i, j) is to be recorded
TargetPosition(i, j) ==
    LET id == TRows[i + 1][j + 1].id
    IN  IF id # <<>> /\ id \in DOMAIN TGround /\ TGround[id].hasPosition
        THEN <<TGround[id].row, TGround[id].col>>
        ELSE <<i, j>>
CellText(i, j) == Trim(TRows[i + 1][j + 1].text)
\* the cell's content is found in the result at position p
RecordedAt(i, j, p) ==
    /\ ContainsDarkOrBlack(CellText(i, j)) => p \in SeqRange(ret.value.blackCells)
    /\ (LeadingDigits(CellText(i, j)) # <<>> /\ ~ContainsSquare(CellText(i, j)))
          => PosKey(p[1], p[2]) \in DOMAIN ret.value.clueNumbers

\* C4 as stated: every cell of every row is recorded: at the grounding map's row/col
\* when it carries an identifier the map gives a position for, and otherwise (no
\* identifier, identifier absent from the map, entry without a position) at its scan
\* position; so a cell without identifier whose text contains "black" gives a black
\* cell at its scan position.
C4_EveryCellRecorded ==
    pc = "done" =>
        \A i \in 0..(Len(TRows) - 1) : \A j \in 0..(Len(TRows[i + 1]) - 1) :
            RecordedAt(i, j, TargetPosition(i, j))

\* C5: a table of N row elements that each hold M cells gives gridSize = [M, N],
\* whatever the grounding map and the cells' contents are.
C5_UniformTableSize ==
    pc = "done" =>
        /\ Len(TRows) = 0 => ret.value.gridSize = <<0, 0>>
        /\ (Len(TRows) >= 1 /\ \A i \in DOMAIN TRows : Len(TRows[i]) = Len(TRows[1]))
              => ret.value.gridSize = <<Len(TRows[1]), Len(TRows)>>

\* C5 witness: three rows of two cells each, parsed with a grounding map that places
\* cells elsewhere, give gridSize [2, 3].
C5_Witness ==
    /\ pc = "done"
    /\ Len(TRows) = 3
    /\ \A i \in DOMAIN TRows : Len(TRows[i]) = 2
    /\ TRows[1] # TRows[2]
    /\ DOMAIN TGround # {}
    /\ ret.value.gridSize = <<2, 3>>

(***************************************************************************)
(* parseCluesFromText                                                      *)
(*                                                                         *)
(* A text chunk's markdown is its string, character by character.          *)
(***************************************************************************)
\* /\bword\b/i.test(s), word in lower case
HasWholeWord(s, word) ==
    \E i \in 1..(Len(s) - Len(word) + 1) :
        /\ SubSeq(LowerCase(s), i, i + Len(word) - 1) = word
        /\ (i = 1 \/ ~WordChar(s[i - 1]))
        /\ (i + Len(word) > Len(s) \/ ~WordChar(s[i + Len(word)]))

\* /^\d/.test(s)
StartsWithDigit(s) == s # <<>> /\ s[1] \in DigitChars

\* s without its leading white space
RECURSIVE SkipSpaces(_)
SkipSpaces(s) == IF s # <<>> /\ IsSpace(s[1]) THEN SkipSpaces(Tail(s)) ELSE s

\* trimmed.match(/^(\d+)\.?\s+(.+)$/): [matched, num, clueText]
ClueMatch(trimmed) ==
    LET num == LeadingDigits(trimmed)
        afterNum == SubSeq(trimmed, Len(num) + 1, Len(trimmed))
        afterDot == IF afterNum # <<>> /\ afterNum[1] = "." THEN Tail(afterNum) ELSE afterNum
        clueText == SkipSpaces(afterDot)
    IN  IF num # <<>> /\ afterDot # <<>> /\ IsSpace(afterDot[1]) /\ clueText # <<>>
        THEN [matched |-> TRUE, num |-> num, clueText |-> clueText]
        ELSE [matched |-> FALSE, num |-> <<>>, clueText |-> <<>>]

\* /\bacross\b/i.test(trimmed) && !/^\d/.test(trimmed), and the same for "down":
\* the test of a direction header, ignoring the leading-digit exemption
IsDirectionHeaderAnywhere(trimmed, word) == HasWholeWord(trimmed, word)

IsDirectionHeader(trimmed, word) ==
    HasWholeWord(trimmed, word) /\ ~StartsWithDigit(trimmed)

WordAcross == <<"a", "c", "r", "o", "s", "s">>
WordDown == <<"d", "o", "w", "n">>

\* registration that writes the clue into both objects
RegisterClueInBoth(st, num, clueText) ==
    [st EXCEPT !.acrossClues = Put(@, num, clueText),
               !.downClues = Put(@, num, clueText),
               !.lastClueNum = num,
               !.lastClueDirection = st.currentDirection]

\* the branch "clueMatch && currentDirection"
RegisterClue(st, num, clueText) ==
    IF st.currentDirection = "across"
    THEN [st EXCEPT !.acrossClues = Put(@, num, clueText),
                    !.lastClueNum = num,
                    !.lastClueDirection = "across"]
    ELSE [st EXCEPT !.downClues = Put(@, num, clueText),
                    !.lastClueNum = num,
                    !.lastClueDirection = "down"]

\* continuation that appends to the clue of the current direction
ContinueClueOfCurrentDirection(st, trimmed) ==
    IF st.currentDirection = "across"
    THEN [st EXCEPT !.acrossClues =
             Put(@, st.lastClueNum,
                 (IF st.lastClueNum \in DOMAIN @ THEN @[st.lastClueNum] ELSE <<>>)
                     \o <<" ">> \o trimmed)]
    ELSE [st EXCEPT !.downClues =
             Put(@, st.lastClueNum,
                 (IF st.lastClueNum \in DOMAIN @ THEN @[st.lastClueNum] ELSE <<>>)
                     \o <<" ">> \o trimmed)]

\* the branch "lastClueNum && lastClueDirection && !clueMatch"
ContinueClue(st, trimmed) ==
    IF st.lastClueDirection = "across"
    THEN [st EXCEPT !.acrossClues =
             Put(@, st.lastClueNum, @[st.lastClueNum] \o <<" ">> \o trimmed)]
    ELSE [st EXCEPT !.downClues =
             Put(@, st.lastClueNum, @[st.lastClueNum] \o <<" ">> \o trimmed)]

\* the body of lines.forEach: st holds currentDirection, lastClueNum,
\* lastClueDirection ("none" for null) and the two clue objects
ClueLineStep(st, line) ==
    LET trimmed == Trim(line)
        clueMatch == ClueMatch(trimmed)
    IN  IF IsDirectionHeader(trimmed, WordAcross)
        THEN [st EXCEPT !.currentDirection = "across"]
        ELSE IF IsDirectionHeader(trimmed, WordDown)
        THEN [st EXCEPT !.currentDirection = "down"]
        ELSE IF trimmed = <<>> \/ trimmed[1] = "<"
        THEN st
        ELSE IF clueMatch.matched /\ st.currentDirection # "none"
        THEN RegisterClue(st, clueMatch.num, clueMatch.clueText)
        ELSE IF st.lastClueNum # <<>> /\ st.lastClueDirection # "none" /\ ~clueMatch.matched
        THEN ContinueClue(st, trimmed)
        ELSE st

RECURSIVE ClueLines(_, _, _)
ClueLines(st, lines, k) ==
    IF k > Len(lines) THEN st
    ELSE ClueLines(ClueLineStep(st, lines[k]), lines, k + 1)

\* md.split('\n').filter(line => line.trim())
TextLines(md) ==
    LET NonBlank(line) == Trim(line) # <<>>
    IN  SelectSeq(Split(md, "\n"), NonBlank)

\* locals that would outlive the chunk they were set in
ChunkLocalsKept(st) == st

\* let currentDirection = null; let lastClueNum = null; let lastClueDirection = null
ChunkLocals(st) ==
    [st EXCEPT !.currentDirection = "none", !.lastClueNum = <<>>,
               !.lastClueDirection = "none"]

\* the body of textChunks.forEach: direction and last clue start as null
ClueChunkStep(st, chunk) ==
    ClueLines(ChunkLocals(st), TextLines(chunk.markdown.text), 1)

RECURSIVE ClueChunks(_, _, _)
ClueChunks(st, textChunks, k) ==
    IF k > Len(textChunks) THEN st
    ELSE ClueChunks(ClueChunkStep(st, textChunks[k]), textChunks, k + 1)

parseCluesFromText(textChunks) ==
    LET st == ClueChunks(NoLocals, textChunks, 1)
    IN  [acrossClues |-> st.acrossClues, downClues |-> st.downClues]

(***************************************************************************)
(* parseCluesFromText, line by line                                        *)
(*                                                                         *)
(* loc holds the two loops' positions (chunk: text chunks entered so far,  *)
(* lineNo: lines of the current chunk consumed, line: the line consumed    *)
(* last, read: lines consumed in all chunks) and the function's local      *)
(* variables.  The chunks' lines are read as the loops reach them; blank   *)
(* lines never reach the inner loop.  A call reads at most MaxClueLines    *)
(* lines in at most MaxClueLines chunks.                                   *)
(***************************************************************************)
MaxClueLines == 4

\* "ACROSS"
LineAcross == <<"A", "C", "R", "O", "S", "S">>
\* "  ## Down "
LineDown == <<" ", " ", "#", "#", " ", "D", "o", "w", "n", " ">>
\* "Across/Down"
LineAcrossDown == <<"A", "c", "r", "o", "s", "s", "/", "D", "o", "w", "n">>
\* "1 Capital of France"
LineOneCapital ==
    <<"1", " ", "C", "a", "p", "i", "t", "a", "l", " ", "o", "f", " ",
      "F", "r", "a", "n", "c", "e">>
\* "1.  down under"
LineOneDownUnder == <<"1", ".", " ", " ", "d", "o", "w", "n", " ", "u", "n", "d", "e", "r">>
\* "2 Go"
LineTwoGo == <<"2", " ", "G", "o">>
\* "  continued text"
LineContinued ==
    <<" ", " ", "c", "o", "n", "t", "i", "n", "u", "e", "d", " ", "t", "e", "x", "t">>
\* "<a id='x'>"
LineAnchor == <<"<", "a", " ", "i", "d", "=", "'", "x", "'", ">">>
\* "3.across"
LineThreeAcross == <<"3", ".", "a", "c", "r", "o", "s", "s">>

ClueLinePalette ==
    { LineAcross, LineDown, LineAcrossDown, LineOneCapital, LineOneDownUnder,
      LineTwoGo, LineContinued, LineAnchor, LineThreeAcross }

InitClues ==
    /\ pc = "call"
    /\ call = [fn |-> "parseCluesFromText", args |-> <<>>]
    /\ ret = [error |-> FALSE, value |-> EmptyObj]
    /\ ParserIdle
    /\ StoreIdle
    /\ VerifyIdle
    /\ GridIdle

\* textChunks.forEach enters its next chunk
StartChunk ==
    /\ pc = "call"
    /\ call.fn = "parseCluesFromText"
    /\ loc.chunk < MaxClueLines
    /\ loc' = [ChunkLocals(loc) EXCEPT !.chunk = @ + 1, !.lineNo = 0, !.line = <<>>]
    /\ UNCHANGED <<pc, call, ret, puzzle, selectedCell, direction, sent, storeVars, verifyVars>>

\* lines.forEach consumes the next line of the current chunk
ClueLine ==
    /\ pc = "call"
    /\ call.fn = "parseCluesFromText"
    /\ loc.chunk >= 1
    /\ loc.read < MaxClueLines
    /\ \E line \in ClueLinePalette :
          loc' = [ClueLineStep(loc, line) EXCEPT !.lineNo = @ + 1, !.read = @ + 1,
                                                 !.line = line]
    /\ UNCHANGED <<pc, call, ret, puzzle, selectedCell, direction, sent, storeVars, verifyVars>>

\* return { acrossClues, downClues }
ReturnClues ==
    /\ pc = "call"
    /\ call.fn = "parseCluesFromText"
    /\ ret' = [error |-> FALSE,
               value |-> [acrossClues |-> loc.acrossClues, downClues |-> loc.downClues]]
    /\ pc' = "done"
    /\ UNCHANGED <<call, loc, puzzle, selectedCell, direction, sent, storeVars, verifyVars>>

NextClues == StartChunk \/ ClueLine \/ ReturnClues

SpecClues == InitClues /\ [][NextClues]_vars

(***************************************************************************)
(* Properties of parseCluesFromText                                        *)
(***************************************************************************)
\* this step is one run of the lines.forEach body, on the line loc'.line
LineConsumed == loc'.chunk = loc.chunk /\ loc'.read = loc.read + 1

\* this step enters a chunk
ChunkEntered == loc'.chunk = loc.chunk + 1

\* the clue object of a direction in the locals l
Clues(l, d) == IF d = "across" THEN l.acrossClues ELSE l.downClues

ClueDirections == {"across", "down"}

\* t has the form: digits, an optional ".", white space, at least one more character
MatchesNumberedClue(t) ==
    \E n \in 1..Len(t), dot \in 0..1, k \in 1..Len(t) :
        /\ n + dot + k < Len(t)
        /\ \A i \in 1..n : t[i] \in DigitChars
        /\ dot = 1 => t[n + 1] = "."
        /\ \A i \in (n + dot + 1)..(n + dot + k) : IsSpace(t[i])

\* the number such a line begins with: its longest prefix of digits
LineNumber(t) ==
    LET n == CHOOSE m \in 0..Len(t) :
                 /\ \A i \in 1..m : t[i] \in DigitChars
                 /\ m < Len(t) => t[m + 1] \notin DigitChars
    IN  SubSeq(t, 1, n)

MentionsDirection(t, word) ==
    \E i \in 1..Len(t) :
        /\ i + Len(word) - 1 <= Len(t)
        /\ \A j \in 1..Len(word) : ToLower(t[i + j - 1]) = word[j]
        /\ i > 1 => ~WordChar(t[i - 1])
        /\ i + Len(word) <= Len(t) => ~WordChar(t[i + Len(word)])

IsHeaderLine(t) ==
    /\ t # <<>>
    /\ t[1] \notin DigitChars
    /\ MentionsDirection(t, WordAcross) \/ MentionsDirection(t, WordDown)

IsContinuationLine(t) ==
    /\ t # <<>>
    /\ ~IsHeaderLine(t)
    /\ t[1] # "<"
    /\ ~MatchesNumberedClue(t)

\* every clue other than clue num of direction dir is the same in l2 as in l1
OtherCluesSame(l1, l2, dir, num) ==
    \A d \in ClueDirections :
        /\ DOMAIN Clues(l2, d) \ (IF d = dir THEN {num} ELSE {})
              = DOMAIN Clues(l1, d) \ (IF d = dir THEN {num} ELSE {})
        /\ \A n \in DOMAIN Clues(l1, d) :
              (d # dir \/ n # num) => Clues(l2, d)[n] = Clues(l1, d)[n]

AllCluesSame(l1, l2) ==
    l2.acrossClues = l1.acrossClues /\ l2.downClues = l1.downClues

\* C11: within one chunk, (lastClueNum, lastClueDirection) is the clue registered
\* last (a numbered line under a current direction sets it, no other line changes
\* it), and a continuation line -- not blank, not a direction header, not starting
\* with "<", not of the numbered-clue form -- is appended to that clue's text after
\* one space and changes no other clue, or changes nothing when no clue has been
\* registered in the chunk.
C11_ContinuationAppends ==
    [][LineConsumed =>
        LET t == Trim(loc'.line)
        IN  /\ (MatchesNumberedClue(t) /\ t[1] # "<" /\ loc.currentDirection # "none")
                  => /\ loc'.lastClueNum = LineNumber(t)
                     /\ loc'.lastClueDirection = loc.currentDirection
            /\ ~(MatchesNumberedClue(t) /\ t[1] # "<" /\ loc.currentDirection # "none")
                  => /\ loc'.lastClueNum = loc.lastClueNum
                     /\ loc'.lastClueDirection = loc.lastClueDirection
            /\ IsContinuationLine(t) =>
                  IF loc.lastClueNum # <<>>
                  THEN /\ loc.lastClueNum \in DOMAIN Clues(loc, loc.lastClueDirection)
                       /\ loc.lastClueNum \in DOMAIN Clues(loc', loc.lastClueDirection)
                       /\ Clues(loc', loc.lastClueDirection)[loc.lastClueNum]
                             = Clues(loc, loc.lastClueDirection)[loc.lastClueNum]
                                  \o <<" ">> \o t
                       /\ OtherCluesSame(loc, loc', loc.lastClueDirection, loc.lastClueNum)
                  ELSE AllCluesSame(loc, loc')]_vars

\* C11 witness: the lines "ACROSS", "1 Capital of France", "  continued text" of one
\* chunk leave Across 1 = "Capital of France continued text".
C11_Witness ==
    /\ loc.chunk = 1
    /\ loc.read = 3
    /\ loc.line = LineContinued
    /\ DOMAIN loc.acrossClues = {<<"1">>}
    /\ loc.acrossClues[<<"1">>] =
          <<"C", "a", "p", "i", "t", "a", "l", " ", "o", "f", " ", "F", "r", "a", "n", "c",
            "e", " ", "c", "o", "n", "t", "i", "n", "u", "e", "d", " ", "t", "e", "x", "t">>
    /\ loc.downClues = EmptyObj

\* the clue text of a line of the numbered-clue form: what follows the number,
\* the optional "." and the white space after them
LineClueText(t) ==
    LET n == Len(LineNumber(t))
        dot == IF t[n + 1] = "." THEN 1 ELSE 0
        first == CHOOSE k \in (n + dot + 1)..Len(t) :
                     /\ ~IsSpace(t[k])
                     /\ \A i \in (n + dot + 1)..(k - 1) : IsSpace(t[i])
    IN  SubSeq(t, first, Len(t))

\* what C12 says of a line that starts with a digit: the direction stays, and a
\* line of the numbered-clue form is registered under the direction current before it
DigitLineKeepsDirection(t) ==
    (t # <<>> /\ t[1] \in DigitChars) =>
        /\ loc'.currentDirection = loc.currentDirection
        /\ (MatchesNumberedClue(t) /\ loc.currentDirection # "none") =>
              /\ LineNumber(t) \in DOMAIN Clues(loc', loc.currentDirection)
              /\ Clues(loc', loc.currentDirection)[LineNumber(t)] = LineClueText(t)
              /\ OtherCluesSame(loc, loc', loc.currentDirection, LineNumber(t))

\* a header line for the given word sets the direction and contributes no text
HeaderSets(t, word, dir) ==
    (t # <<>> /\ t[1] \notin DigitChars /\ MentionsDirection(t, word)) =>
        /\ loc'.currentDirection = dir
        /\ AllCluesSame(loc, loc')

\* C12 as stated: a line with the whole word "across" (resp. "down"), in any case,
\* that does not start with a digit sets the direction to across (resp. down) and
\* contributes no text; a line starting with a digit never changes the direction
\* and is registered under the direction current before it.
C12_EitherWordSets ==
    [][LineConsumed =>
        LET t == Trim(loc'.line)
        IN  /\ HeaderSets(t, WordAcross, "across")
            /\ HeaderSets(t, WordDown, "down")
            /\ DigitLineKeepsDirection(t)]_vars

\* C12, amended: "across" is tested first, so a line with both words sets the
\* direction to across; "down" sets it only on a line without the word "across".
C12_AcrossTestedFirst ==
    [][LineConsumed =>
        LET t == Trim(loc'.line)
        IN  /\ HeaderSets(t, WordAcross, "across")
            /\ ~MentionsDirection(t, WordAcross) => HeaderSets(t, WordDown, "down")
            /\ DigitLineKeepsDirection(t)]_vars

\* C12 witness: under the direction across, the line "1.  down under" has been
\* registered as Across 1 = "down under" and the direction is still across.
C12_Witness ==
    /\ loc.line = LineOneDownUnder
    /\ loc.currentDirection = "across"
    /\ <<"1">> \in DOMAIN loc.acrossClues
    /\ loc.acrossClues[<<"1">>] = <<"d", "o", "w", "n", " ", "u", "n", "d", "e", "r">>
    /\ loc.downClues = EmptyObj

OtherDirection(d) == IF d = "across" THEN "down" ELSE "across"

\* C13: clue numbers are scoped by direction: a line registered under a direction,
\* or appended to the last clue of a direction, leaves the other direction's object
\* as it was, so that Across n and Down n are separate entries.
C13_DirectionScoped ==
    [][LineConsumed =>
        LET t == Trim(loc'.line)
        IN  /\ (MatchesNumberedClue(t) /\ loc.currentDirection # "none") =>
                  Clues(loc', OtherDirection(loc.currentDirection))
                      = Clues(loc, OtherDirection(loc.currentDirection))
            /\ (IsContinuationLine(t) /\ loc.lastClueNum # <<>>) =>
                  Clues(loc', OtherDirection(loc.lastClueDirection))
                      = Clues(loc, OtherDirection(loc.lastClueDirection))
            /\ loc'.acrossClues = loc.acrossClues \/ loc'.downClues = loc.downClues]_vars

\* C13 witness: Across 1 and Down 1 both exist, with different texts, Down 1
\* registered last.
C13_Witness ==
    /\ loc.line = LineOneDownUnder
    /\ loc.lastClueDirection = "down"
    /\ <<"1">> \in DOMAIN loc.acrossClues
    /\ <<"1">> \in DOMAIN loc.downClues
    /\ loc.acrossClues[<<"1">>] = SubSeq(LineOneCapital, 3, Len(LineOneCapital))
    /\ loc.downClues[<<"1">>] = <<"d", "o", "w", "n", " ", "u", "n", "d", "e", "r">>

\* C14: the current direction and the last clue reference belong to one chunk:
\* entering a chunk sets both to none and changes no clue; only a direction header
\* changes the direction; and while no direction is current (no header yet in this
\* chunk) a line registers no clue and is appended to no clue, whatever earlier
\* chunks registered.
C14_PerChunkState ==
    [][/\ ChunkEntered =>
            /\ loc'.currentDirection = "none"
            /\ loc'.lastClueNum = <<>>
            /\ loc'.lastClueDirection = "none"
            /\ AllCluesSame(loc, loc')
       /\ LineConsumed =>
            LET t == Trim(loc'.line)
            IN  /\ ~IsHeaderLine(t) => loc'.currentDirection = loc.currentDirection
                /\ (loc.currentDirection = "none" /\ ~IsHeaderLine(t)) =>
                      /\ AllCluesSame(loc, loc')
                      /\ loc'.lastClueNum = <<>>
                      /\ loc'.lastClueDirection = "none"]_vars

\* C14 witness: the first chunk registered Across 1; the second chunk has read
\* "continued text" and then "2 Go" without a header, and the clues are as the
\* first chunk left them.
C14_Witness ==
    /\ loc.chunk = 2
    /\ loc.lineNo = 2
    /\ loc.read = 4
    /\ loc.line = LineTwoGo
    /\ loc.currentDirection = "none"
    /\ DOMAIN loc.acrossClues = {<<"1">>}
    /\ loc.acrossClues[<<"1">>] = SubSeq(LineOneCapital, 3, Len(LineOneCapital))
    /\ loc.downClues = EmptyObj

(***************************************************************************)
(* transformLandingAIResponse                                              *)
(*                                                                         *)
(* data is [hasChunks, chunks, hasGrounding, grounding]; a chunk is        *)
(* [type, markdown], its markdown given as what each parser's patterns     *)
(* find in it: [table |-> row elements, figure |-> description lines,      *)
(* text |-> the string].                                                   *)
(***************************************************************************)
\* chunks?.find(chunk => chunk.type === type): its 1-based index, 0 for undefined
FindChunk(data, type) ==
    IF data.hasChunks /\ \E i \in DOMAIN data.chunks : data.chunks[i].type = type
    THEN Min({i \in DOMAIN data.chunks : data.chunks[i].type = type})
    ELSE 0

\* chunks?.filter(chunk => chunk.type === 'text') || []
TextChunks(data) ==
    LET IsText(chunk) == chunk.type = "text"
    IN  IF data.hasChunks THEN SelectSeq(data.chunks, IsText) ELSE <<>>

EmptyPuzzle == [gridSize |-> <<0, 0>>, blackCells |-> <<>>, clueNumbers |-> EmptyObj,
                preFilledLetters |-> EmptyObj, acrossClues |-> EmptyObj,
                downClues |-> EmptyObj]

\* a handler that returns what the text chunks gave instead of throwing
ReturnCluesOnly(data) ==
    [error |-> FALSE,
     value |-> [EmptyPuzzle EXCEPT
                  !.acrossClues = parseCluesFromText(TextChunks(data)).acrossClues,
                  !.downClues = parseCluesFromText(TextChunks(data)).downClues]]

\* throw new Error('No crossword grid found in image')
ThrowNoGrid(data) == [error |-> TRUE, value |-> EmptyPuzzle]

\* a grid choice that prefers the figure chunk: figureChunk || tableChunk
UseTableOnlyWithoutFigure(tableChunk, figureChunk) == tableChunk # 0 /\ figureChunk = 0

\* if (tableChunk) ... else ...
UseTable(tableChunk, figureChunk) == tableChunk # 0

\* a test that always asks for derivation
NeedsDerivationAlways(clueNumbers) == TRUE

\* Object.keys(gridData.clueNumbers).length === 0
NeedsDerivation(clueNumbers) == DOMAIN clueNumbers = {}

GridData(data) ==
    LET tableChunk == FindChunk(data, "table")
        figureChunk == FindChunk(data, "figure")
    IN  IF UseTable(tableChunk, figureChunk)
        THEN parseTableMarkdown(data.chunks[tableChunk].markdown.table,
                                IF data.hasGrounding THEN data.grounding
                                ELSE [id \in {} |-> 0])
        ELSE parseFigureDescription(data.chunks[figureChunk].markdown.figure)

Assemble(data) ==
    LET gridData == GridData(data)
        cluesData == parseCluesFromText(TextChunks(data))
        clueNumbers ==
            IF NeedsDerivation(gridData.clueNumbers)
            THEN deriveCluePositions(gridData.gridSize, gridData.blackCells,
                                     cluesData.acrossClues, cluesData.downClues)
            ELSE gridData.clueNumbers
    IN  [error |-> FALSE,
         value |-> [gridSize |-> gridData.gridSize,
                    blackCells |-> gridData.blackCells,
                    clueNumbers |-> clueNumbers,
                    preFilledLetters |-> gridData.preFilledLetters,
                    acrossClues |-> cluesData.acrossClues,
                    downClues |-> cluesData.downClues]]

\* a grid chunk choice that looks at the table chunk only
GridChunkTableOnly(tableChunk, figureChunk) == tableChunk

\* const gridChunk = tableChunk || figureChunk (0 for undefined)
GridChunk(tableChunk, figureChunk) == IF tableChunk # 0 THEN tableChunk ELSE figureChunk

transformLandingAIResponse(data) ==
    IF GridChunk(FindChunk(data, "table"), FindChunk(data, "figure")) = 0
    THEN ThrowNoGrid(data)
    ELSE Assemble(data)

(***************************************************************************)
(* Invocations of transformLandingAIResponse on bounded responses.         *)
(***************************************************************************)
TableMarkdown(rows) == [table |-> rows, figure |-> <<>>, text |-> <<>>]
FigureMarkdown(lines) == [table |-> <<>>, figure |-> lines, text |-> <<>>]
TextMarkdown(str) == [table |-> <<>>, figure |-> <<>>, text |-> str]
Chunk(type, markdown) == [type |-> type, markdown |-> markdown]

\* a 2x2 table with the clue number 1 on cell a
NumberedTable ==
    << <<Cell(IdA, TxtOne), Cell(IdB, TxtEmpty)>>,
       <<Cell(IdB, TxtEmpty), Cell(IdB, TxtEmpty)>> >>

\* a 3x2 table without clue numbers, cell a black
PlainTable ==
    << <<Cell(IdB, TxtEmpty), Cell(IdB, TxtEmpty), Cell(IdA, TxtBlack)>>,
       <<Cell(IdB, TxtEmpty), Cell(IdB, TxtEmpty), Cell(IdB, TxtEmpty)>> >>

\* "Row 1: 1, 2" / "Row 2: _,_"
NumberedFigure == <<RowLine(<<"1", ",", " ", "2">>), RowLine(<<"_", ",", "_">>)>>

\* "Row 1: _,Black" / "Row 2: _,_" / "Row 3: _,_"
PlainFigure ==
    <<RowLine(<<"_", ",", "B", "l", "a", "c", "k">>), RowLine(<<"_", ",", "_">>),
      RowLine(<<"_", ",", "_">>)>>

\* "Row 1: _" / "Row 2: 0,Black": a second row longer than the first
RaggedFigure ==
    <<RowLine(<<"_">>), RowLine(<<"0", ",", "B", "l", "a", "c", "k">>)>>

\* a description without "Row n:" lines and without a size expression
BlankFigure == <<TextLine>>

\* a first row without cells, then two black cells that carry the same id
GappyTable == << <<>>, <<Cell(IdA, TxtBlack), Cell(IdA, TxtBlack)>> >>

\* "ACROSS\n1 ab\n4 c\nDOWN\n2 cd"
CluesText ==
    <<"A", "C", "R", "O", "S", "S", "\n", "1", " ", "a", "b", "\n", "4", " ", "c", "\n",
      "D", "O", "W", "N", "\n", "2", " ", "c", "d">>

\* "Across\n1. xy\nz"
MoreCluesText ==
    <<"A", "c", "r", "o", "s", "s", "\n", "1", ".", " ", "x", "y", "\n", "z">>

Chunks ==
    { Chunk("table", TableMarkdown(NumberedTable)),
      Chunk("table", TableMarkdown(PlainTable)),
      Chunk("figure", FigureMarkdown(NumberedFigure)),
      Chunk("figure", FigureMarkdown(PlainFigure)),
      Chunk("table", TableMarkdown(GappyTable)),
      Chunk("figure", FigureMarkdown(RaggedFigure)),
      Chunk("figure", FigureMarkdown(BlankFigure)),
      Chunk("text", TextMarkdown(CluesText)),
      Chunk("text", TextMarkdown(MoreCluesText)),
      Chunk("marginalia", TextMarkdown(CluesText)) }

NoGrounding == [id \in {} |-> NoPosition]

InitTransform ==
    /\ pc = "call"
    /\ \E hasChunks \in BOOLEAN, n \in 0..MaxChunks :
          \E chunks \in [1..n -> Chunks], hasGrounding \in BOOLEAN :
             /\ ~hasChunks => (n = 0 /\ ~hasGrounding)
             /\ call = [fn |-> "transformLandingAIResponse",
                        args |-> [hasChunks |-> hasChunks, chunks |-> chunks,
                                  hasGrounding |-> hasGrounding,
                                  grounding |-> IF hasGrounding
                                                THEN [id \in {IdA} |-> Position(1, 1)]
                                                ELSE NoGrounding]]
    /\ ret = [error |-> FALSE, value |-> EmptyPuzzle]
    /\ ParserIdle
    /\ StoreIdle
    /\ VerifyIdle
    /\ GridIdle

Transform ==
    /\ pc = "call"
    /\ call.fn = "transformLandingAIResponse"
    /\ ret' = transformLandingAIResponse(call.args)
    /\ pc' = "done"
    /\ UNCHANGED <<call, loc, puzzle, selectedCell, direction, sent, storeVars, verifyVars>>

NextTransform == Transform

SpecTransform == InitTransform /\ [][NextTransform]_vars

(***************************************************************************)
(* Properties of transformLandingAIResponse.                               *)
(***************************************************************************)
XData == call.args
XTypes == IF XData.hasChunks THEN {XData.chunks[i].type : i \in DOMAIN XData.chunks} ELSE {}
XIndexes(type) == {i \in DOMAIN XData.chunks : XData.chunks[i].type = type}
\* the chunks of the type, in their order in the response
XChunksOf(type) ==
    [k \in 1..Cardinality(XIndexes(type)) |->
        XData.chunks[CHOOSE i \in XIndexes(type) :
                        Cardinality({j \in XIndexes(type) : j < i}) = k - 1]]
XGrounding == IF XData.hasGrounding THEN XData.grounding ELSE NoGrounding
\* the response with the chunks of one type taken out
XWithout(type) ==
    LET Keep(chunk) == chunk.type # type
    IN  [XData EXCEPT !.chunks = SelectSeq(XData.chunks, Keep)]
\* the response with only the first table chunk and the text chunks
XFirstTableAndTexts ==
    [XData EXCEPT !.chunks = <<XChunksOf("table")[1]>> \o XChunksOf("text")]

\* C1: when the chunks hold both a table chunk and a figure chunk, in either order,
\* the grid (gridSize, blackCells, preFilledLetters, and clueNumbers before
\* derivation) is that of the first table chunk, the figure chunks contribute
\* nothing, and the clues are those of the text chunks in their original order.
C1_TablePreferred ==
    (pc = "done" /\ {"table", "figure"} \subseteq XTypes) =>
        LET grid == parseTableMarkdown(XChunksOf("table")[1].markdown.table, XGrounding)
            clues == parseCluesFromText(XChunksOf("text"))
        IN  /\ ~ret.error
            /\ ret.value.gridSize = grid.gridSize
            /\ ret.value.blackCells = grid.blackCells
            /\ ret.value.preFilledLetters = grid.preFilledLetters
            /\ DOMAIN grid.clueNumbers # {} => ret.value.clueNumbers = grid.clueNumbers
            /\ ret.value.acrossClues = clues.acrossClues
            /\ ret.value.downClues = clues.downClues
            /\ ret = transformLandingAIResponse(XWithout("figure"))
            /\ ret = transformLandingAIResponse(XFirstTableAndTexts)

\* C1 witness: a figure chunk with clue numbers comes before a table chunk without,
\* between two text chunks that both give Across 1: the grid is the table's 3x2
\* grid, its clue numbers are derived, and Across 1 is the later text chunk's.
C1_Witness ==
    /\ pc = "done"
    /\ XData.chunks = << Chunk("text", TextMarkdown(CluesText)),
                         Chunk("figure", FigureMarkdown(NumberedFigure)),
                         Chunk("table", TableMarkdown(PlainTable)),
                         Chunk("text", TextMarkdown(MoreCluesText)) >>
    /\ ~XData.hasGrounding
    /\ ret.value.gridSize = <<3, 2>>
    /\ ret.value.blackCells = <<<<0, 2>>>>
    /\ ret.value.acrossClues[<<"1">>] = <<"x", "y", " ", "z">>
    /\ ret.value.downClues[<<"2">>] = <<"c", "d">>
    /\ PosKey(0, 0) \in DOMAIN ret.value.clueNumbers

\* C2: a response without table chunk and without figure chunk (only text or other
\* chunks, an empty chunk list, or no chunk list) raises the no-grid error and
\* returns no puzzle record, not even one built from the text chunks.
C2_NoGridRaises ==
    (pc = "done" /\ "table" \notin XTypes /\ "figure" \notin XTypes) =>
        /\ ret.error
        /\ ret.value = EmptyPuzzle

\* C2 witness: a response of text chunks only, with parseable clues, has raised.
C2_Witness ==
    /\ pc = "done"
    /\ XData.hasChunks
    /\ Len(XData.chunks) >= 2
    /\ XTypes = {"text"}
    /\ DOMAIN parseCluesFromText(XChunksOf("text")).acrossClues # {}
    /\ ret.error

\* what the grid parser returned for the response's grid chunk
XParsedGrid ==
    IF "table" \in XTypes
    THEN parseTableMarkdown(XChunksOf("table")[1].markdown.table, XGrounding)
    ELSE parseFigureDescription(XChunksOf("figure")[1].markdown.figure)
XDerived ==
    deriveCluePositions(XParsedGrid.gridSize, XParsedGrid.blackCells,
                        ret.value.acrossClues, ret.value.downClues)

\* C3: deriveCluePositions is applied iff the grid parser returned an empty
\* clue-number map; when it returned at least one clue number the output
\* clueNumbers is exactly the grid parser's map, whatever the parsed clues and
\* black cells are.
C3_DeriveOnlyWhenEmpty ==
    (pc = "done" /\ ~ret.error) =>
        /\ DOMAIN XParsedGrid.clueNumbers # {} =>
              ret.value.clueNumbers = XParsedGrid.clueNumbers
        /\ DOMAIN XParsedGrid.clueNumbers = {} =>
              ret.value.clueNumbers = XDerived

\* C3 witness: the grid parser found a clue number, derivation would have given
\* another non-empty map, and the output holds the parser's map.
C3_Witness ==
    /\ pc = "done"
    /\ ~ret.error
    /\ DOMAIN XParsedGrid.clueNumbers # {}
    /\ DOMAIN XDerived # {}
    /\ XDerived # XParsedGrid.clueNumbers
    /\ ret.value.clueNumbers = XParsedGrid.clueNumbers

\* C16: in every returned record with non-zero dimensions, every blackCells pair
\* lies inside the grid (0 <= row < height, 0 <= col < width) and no pair occurs
\* twice.
C16_BlackCellsInGrid ==
    (pc = "done" /\ ~ret.error /\ ret.value.gridSize[1] # 0 /\ ret.value.gridSize[2] # 0) =>
        LET black == ret.value.blackCells
        IN  /\ \A k \in DOMAIN black :
                  /\ 0 <= black[k][1] /\ black[k][1] < ret.value.gridSize[2]
                  /\ 0 <= black[k][2] /\ black[k][2] < ret.value.gridSize[1]
            /\ \A k, l \in DOMAIN black : black[k] = black[l] => k = l

\* C17: every value of clueNumbers in a returned record is a positive integer.
C17_ClueNumbersPositive ==
    (pc = "done" /\ ~ret.error) =>
        \A key \in DOMAIN ret.value.clueNumbers :
            /\ ret.value.clueNumbers[key] \in Int
            /\ ret.value.clueNumbers[key] >= 1

PuzzleFields ==
    {"gridSize", "blackCells", "clueNumbers", "preFilledLetters", "acrossClues", "downClues"}

\* C19: a response with at least one table or figure chunk yields a record with
\* all six fields and no error, whatever the markup says.
C19_FailSoft ==
    (pc = "done" /\ XTypes \cap {"table", "figure"} # {}) =>
        /\ ~ret.error
        /\ DOMAIN ret.value = PuzzleFields
        /\ Len(ret.value.gridSize) = 2

\* C19 witness: the only chunk is a figure without "Row n:" lines and without a
\* size expression, there are no text chunks and no grounding: the record returned
\* has gridSize [0, 0] and nothing else.
C19_Witness ==
    /\ pc = "done"
    /\ XData.hasChunks
    /\ XData.chunks = <<Chunk("figure", FigureMarkdown(BlankFigure))>>
    /\ ~XData.hasGrounding
    /\ ~ret.error
    /\ ret.value = EmptyPuzzle

(***************************************************************************)
(* CrosswordGrid: cell selection and keyboard navigation                   *)
(*                                                                         *)
(* The component is mounted editable on a stored puzzle (puzzle.id set):   *)
(* pc = "mounted".  puzzle.gridSize is [width, height]; blackCells may     *)
(* name cells outside the grid.  sent is the updateCell call issued last   *)
(* (its timestamp left out).                                               *)
(***************************************************************************)
\* puzzle.blackCells?.some(([r, c]) => r === row && c === col)
isBlackCell(row, col) ==
    \E k \in DOMAIN puzzle.blackCells :
        puzzle.blackCells[k][1] = row /\ puzzle.blackCells[k][2] = col

\* Math.max(0, Math.min(size - 1, x))
Clamp(x, size) ==
    LET low == IF size - 1 < x THEN size - 1 ELSE x
    IN  IF low < 0 THEN 0 ELSE low

\* the while loop of moveCell from (row, col): the cell it stops on, NoCell when it
\* runs off the grid (the early return)
RECURSIVE SkipBlackCells(_, _, _, _)
SkipBlackCells(row, col, rowDelta, colDelta) ==
    IF ~isBlackCell(row, col) THEN [row |-> row, col |-> col]
    ELSE LET newRow == row + rowDelta
             newCol == col + colDelta
         IN  IF \/ newRow < 0 \/ newRow >= puzzle.gridSize[2]
                \/ newCol < 0 \/ newCol >= puzzle.gridSize[1]
             THEN NoCell
             ELSE SkipBlackCells(newRow, newCol, rowDelta, colDelta)

\* a move that clamps and selects the neighbour whatever its colour
moveCellOntoNeighbour(rowDelta, colDelta) ==
    IF selectedCell = NoCell THEN selectedCell
    ELSE [row |-> Clamp(selectedCell.row + rowDelta, puzzle.gridSize[2]),
          col |-> Clamp(selectedCell.col + colDelta, puzzle.gridSize[1])]

\* moveCell(rowDelta, colDelta): the value of selectedCell after it
moveCell(rowDelta, colDelta) ==
    IF selectedCell = NoCell THEN selectedCell
    ELSE LET stop == SkipBlackCells(Clamp(selectedCell.row + rowDelta, puzzle.gridSize[2]),
                                    Clamp(selectedCell.col + colDelta, puzzle.gridSize[1]),
                                    rowDelta, colDelta)
         IN  IF stop = NoCell THEN selectedCell ELSE stop

\* d => d === 'across' ? 'down' : 'across'
ToggleDirection(d) == IF d = "across" THEN "down" ELSE "across"

\* updateCell(puzzle.id, row, col, letter, userId): letter.toUpperCase() is stored
UserId == <<"u", "1">>

updateCell(row, col, letter) ==
    [row |-> row, col |-> col, letter |-> [i \in DOMAIN letter |-> ToUpper(letter[i])],
     userId |-> UserId]

\* [width, height] of the mounted puzzles; their black cells are drawn from a 3x3 area
GridSizes == {<<1, 3>>, <<3, 1>>, <<3, 2>>, <<3, 3>>}

LetterKeys == {"a"}

ArrowKeys == {"ArrowUp", "ArrowDown", "ArrowLeft", "ArrowRight"}

InitGrid ==
    /\ pc = "mounted"
    /\ call = [fn |-> "CrosswordGrid", args |-> <<>>]
    /\ ret = [error |-> FALSE, value |-> EmptyObj]
    /\ ParserIdle
    /\ StoreIdle
    /\ VerifyIdle
    /\ \E size \in GridSizes, B \in BlackLists(3, 3) :
          puzzle = [gridSize |-> size, blackCells |-> B]
    /\ selectedCell = NoCell
    /\ direction = "across"
    /\ sent = NoWrite

\* onClick of the cell rendered at (row, col)
handleCellClick(row, col) ==
    /\ pc = "mounted"
    /\ ~isBlackCell(row, col)
    /\ IF selectedCell = [row |-> row, col |-> col]
       THEN direction' = ToggleDirection(direction) /\ UNCHANGED selectedCell
       ELSE selectedCell' = [row |-> row, col |-> col] /\ UNCHANGED direction
    /\ UNCHANGED <<pc, call, ret, loc, puzzle, sent, storeVars, verifyVars>>

\* handleKeyPress, e.key a letter
LetterKey(key) ==
    /\ pc = "mounted"
    /\ selectedCell # NoCell
    /\ sent' = updateCell(selectedCell.row, selectedCell.col, <<ToUpper(key)>>)
    /\ selectedCell' = IF direction = "across" THEN moveCell(0, 1) ELSE moveCell(1, 0)
    /\ UNCHANGED <<pc, call, ret, loc, puzzle, direction, storeVars, verifyVars>>

\* handleKeyPress, e.key === 'Backspace'
BackspaceKey ==
    /\ pc = "mounted"
    /\ selectedCell # NoCell
    /\ sent' = updateCell(selectedCell.row, selectedCell.col, <<>>)
    /\ selectedCell' = IF direction = "across" THEN moveCell(0, -1) ELSE moveCell(-1, 0)
    /\ UNCHANGED <<pc, call, ret, loc, puzzle, direction, storeVars, verifyVars>>

\* handleKeyPress, e.key === 'Delete'
DeleteKey ==
    /\ pc = "mounted"
    /\ selectedCell # NoCell
    /\ sent' = updateCell(selectedCell.row, selectedCell.col, <<>>)
    /\ UNCHANGED <<pc, call, ret, loc, puzzle, selectedCell, direction, storeVars, verifyVars>>

ArrowDelta(key) ==
    CASE key = "ArrowUp" -> <<-1, 0>>
      [] key = "ArrowDown" -> <<1, 0>>
      [] key = "ArrowLeft" -> <<0, -1>>
      [] key = "ArrowRight" -> <<0, 1>>

\* handleKeyPress, e.key an arrow key
ArrowKey(key) ==
    /\ pc = "mounted"
    /\ selectedCell # NoCell
    /\ selectedCell' = moveCell(ArrowDelta(key)[1], ArrowDelta(key)[2])
    /\ UNCHANGED <<pc, call, ret, loc, puzzle, direction, sent, storeVars, verifyVars>>

\* handleKeyPress, e.key === 'Tab'
TabKey ==
    /\ pc = "mounted"
    /\ selectedCell # NoCell
    /\ direction' = ToggleDirection(direction)
    /\ UNCHANGED <<pc, call, ret, loc, puzzle, selectedCell, sent, storeVars, verifyVars>>

CellClick ==
    \E row \in 0..(puzzle.gridSize[2] - 1), col \in 0..(puzzle.gridSize[1] - 1) :
        handleCellClick(row, col)

NextGrid ==
    \/ CellClick
    \/ \E key \in LetterKeys : LetterKey(key)
    \/ BackspaceKey
    \/ DeleteKey
    \/ \E key \in ArrowKeys : ArrowKey(key)
    \/ TabKey

SpecGrid == InitGrid /\ [][NextGrid]_vars

(***************************************************************************)
(* Properties of the navigation                                            *)
(***************************************************************************)
GWidth == puzzle.gridSize[1]
GHeight == puzzle.gridSize[2]

InGrid(cell) ==
    /\ 0 <= cell.row /\ cell.row < GHeight
    /\ 0 <= cell.col /\ cell.col < GWidth

BlackAt(cell) ==
    <<cell.row, cell.col>> \in {puzzle.blackCells[k] : k \in DOMAIN puzzle.blackCells}

\* the cell k steps from a cell in the direction delta = <<rowDelta, colDelta>>
CellAhead(from, delta, k) ==
    [row |-> from.row + k * delta[1], col |-> from.col + k * delta[2]]

\* the nearest cell ahead that is in the grid and not black; the cell itself when
\* only black cells or the edge of the grid lie ahead
FirstWhiteAhead(from, delta) ==
    LET steps == {k \in 1..(GWidth + GHeight) :
                      InGrid(CellAhead(from, delta, k)) /\ ~BlackAt(CellAhead(from, delta, k))}
    IN  IF steps = {} THEN from ELSE CellAhead(from, delta, Min(steps))

AdvanceDelta(d) == IF d = "across" THEN <<0, 1>> ELSE <<1, 0>>
RetreatDelta(d) == IF d = "across" THEN <<0, -1>> ELSE <<-1, 0>>

\* C20: on an editable grid the selected cell is always none or a cell inside the
\* grid that is not black, after any sequence of clicks and keys; an arrow key, a
\* letter's advance and Backspace's retreat land on the first non-black cell in
\* their direction, or leave the selection as it was when only black cells or the
\* grid edge lie that way; Delete, Tab and a click on the selected cell leave it
\* where it is.
C20_SelectionOnWhiteCell ==
    /\ [](selectedCell = NoCell \/ (InGrid(selectedCell) /\ ~BlackAt(selectedCell)))
    /\ [][/\ \A key \in ArrowKeys :
               ArrowKey(key) =>
                   selectedCell' = FirstWhiteAhead(selectedCell, ArrowDelta(key))
          /\ \A key \in LetterKeys :
               LetterKey(key) =>
                   selectedCell' = FirstWhiteAhead(selectedCell, AdvanceDelta(direction))
          /\ BackspaceKey =>
                   selectedCell' = FirstWhiteAhead(selectedCell, RetreatDelta(direction))
          /\ (DeleteKey \/ TabKey) => selectedCell' = selectedCell]_vars

\* C20 witness: in a 3x1 grid whose middle cell is black, a letter typed on the
\* left cell has been written there and its advance has landed on the right cell.
C20_Witness ==
    /\ pc = "mounted"
    /\ puzzle = [gridSize |-> <<3, 1>>, blackCells |-> << <<0, 1>> >>]
    /\ sent = [row |-> 0, col |-> 0, letter |-> <<"A">>, userId |-> UserId]
    /\ selectedCell = [row |-> 0, col |-> 2]
    /\ direction = "across"

(***************************************************************************)
(* puzzleService: createPuzzle and getPuzzleByShareCode on the database    *)
(*                                                                         *)
(* procs[c] is the c-th service call: [fn, pc, puzzleId, shareCode, data,  *)
(* step, after, found, result].  An awaited set() or get() is one step:    *)
(* the database applies it and the call resumes later.  Math.random and    *)
(* Date.now return any value: generateId and generateShareCode pick from   *)
(* small sets, and two calls may pick the same value.                      *)
(***************************************************************************)
MaxCalls == 3

Null == [id |-> <<>>, shareCode |-> <<>>, data |-> 0]

\* Math.random().toString(36).substring(2) + Date.now().toString(36)
GeneratedIds == {<<"k", "7">>, <<"m", "3">>}

\* Math.random().toString(36).substring(2, 8), before toUpperCase()
RandomBase36 == {<<"a", "1">>, <<"b", "2">>}

\* generateShareCode()
generateShareCode(random) == [i \in DOMAIN random |-> ToUpper(random[i])]

ShareCodes == {generateShareCode(r) : r \in RandomBase36}

\* newPuzzle of createPuzzle: the data passed in, the id and the share code
NewPuzzle(proc) == [id |-> proc.puzzleId, shareCode |-> proc.shareCode, data |-> proc.data]

\* the two set() calls of createPuzzle in the opposite order
CreateWritesCodeFirst(proc) ==
    << [node |-> "shareCodes", key |-> proc.shareCode, value |-> proc.puzzleId,
        puzzle |-> Null],
       [node |-> "puzzles", key |-> proc.puzzleId, value |-> <<>>,
        puzzle |-> NewPuzzle(proc)] >>

\* await set(puzzleRef, newPuzzle); await set(ref(db, `shareCodes/${shareCode}`), puzzleId)
CreateWrites(proc) ==
    << [node |-> "puzzles", key |-> proc.puzzleId, value |-> <<>>,
        puzzle |-> NewPuzzle(proc)],
       [node |-> "shareCodes", key |-> proc.shareCode, value |-> proc.puzzleId,
        puzzle |-> Null] >>

\* set(ref, value) applied to the database
ApplySet(db, write) ==
    IF write.node = "puzzles"
    THEN [db EXCEPT !.puzzles = Put(@, write.key, write.puzzle)]
    ELSE [db EXCEPT !.shareCodes = Put(@, write.key, write.value)]

DoneCalls == {c \in DOMAIN procs : procs[c].pc = "done"}

InitShare ==
    /\ pc = "serving"
    /\ call = [fn |-> "puzzleService", args |-> <<>>]
    /\ ret = [error |-> FALSE, value |-> EmptyObj]
    /\ ParserIdle
    /\ GridIdle
    /\ StoreIdle
    /\ VerifyIdle

\* a client calls createPuzzle: lines 17-29 run up to the first await
CreateBegin ==
    /\ pc = "serving"
    /\ Len(procs) < MaxCalls
    /\ \E id \in GeneratedIds, random \in RandomBase36 :
          procs' = Append(procs,
                     [fn |-> "createPuzzle", pc |-> "set", puzzleId |-> id,
                      shareCode |-> generateShareCode(random), data |-> Len(procs) + 1,
                      step |-> 1, after |-> {}, found |-> FALSE, result |-> Null])
    /\ UNCHANGED <<pc, call, ret, loc, puzzle, selectedCell, direction, sent, store, queue,
                   verifyVars>>

\* the pending set() of a createPuzzle call is applied and acknowledged; after the
\* second one the call returns puzzleId
CreateAwaitSet(c) ==
    /\ pc = "serving"
    /\ procs[c].fn = "createPuzzle"
    /\ procs[c].pc = "set"
    /\ store' = ApplySet(store, CreateWrites(procs[c])[procs[c].step])
    /\ procs' = [procs EXCEPT ![c].step = @ + 1,
                              ![c].pc = IF procs[c].step = 2 THEN "done" ELSE "set"]
    /\ UNCHANGED <<pc, call, ret, loc, puzzle, selectedCell, direction, sent, queue,
                   verifyVars>>

\* a client calls getPuzzleByShareCode(shareCode); after holds the createPuzzle
\* calls that had returned by then
GetBegin ==
    /\ pc = "serving"
    /\ Len(procs) < MaxCalls
    /\ \E code \in ShareCodes :
          procs' = Append(procs,
                     [fn |-> "getPuzzleByShareCode", pc |-> "getCode", puzzleId |-> <<>>,
                      shareCode |-> code, data |-> 0, step |-> 1,
                      after |-> {c \in DoneCalls : procs[c].fn = "createPuzzle"},
                      found |-> FALSE, result |-> Null])
    /\ UNCHANGED <<pc, call, ret, loc, puzzle, selectedCell, direction, sent, store, queue,
                   verifyVars>>

\* await get(ref(db, `shareCodes/${shareCode}`)); if (!codeSnapshot.exists()) return null
GetCode(c) ==
    /\ pc = "serving"
    /\ procs[c].fn = "getPuzzleByShareCode"
    /\ procs[c].pc = "getCode"
    /\ procs' = IF procs[c].shareCode \in DOMAIN store.shareCodes
                THEN [procs EXCEPT ![c].puzzleId = store.shareCodes[procs[c].shareCode],
                                   ![c].found = TRUE,
                                   ![c].pc = "getPuzzle"]
                ELSE [procs EXCEPT ![c].pc = "done"]
    /\ UNCHANGED <<pc, call, ret, loc, puzzle, selectedCell, direction, sent, store, queue,
                   verifyVars>>

\* await get(ref(db, `puzzles/${puzzleId}`)); return the value or null
GetPuzzle(c) ==
    /\ pc = "serving"
    /\ procs[c].fn = "getPuzzleByShareCode"
    /\ procs[c].pc = "getPuzzle"
    /\ procs' = [procs EXCEPT ![c].result =
                                 IF procs[c].puzzleId \in DOMAIN store.puzzles
                                 THEN store.puzzles[procs[c].puzzleId]
                                 ELSE Null,
                              ![c].pc = "done"]
    /\ UNCHANGED <<pc, call, ret, loc, puzzle, selectedCell, direction, sent, store, queue,
                   verifyVars>>

NextShare ==
    \/ CreateBegin
    \/ \E c \in DOMAIN procs : CreateAwaitSet(c)
    \/ GetBegin
    \/ \E c \in DOMAIN procs : GetCode(c)
    \/ \E c \in DOMAIN procs : GetPuzzle(c)

SpecShare == InitShare /\ [][NextShare]_vars

\* C21: a getPuzzleByShareCode(S) call made after createPuzzle has returned for a
\* puzzle P with share code S returns P: the puzzle with P's id and P's data.
C21_CodeResolvesToItsPuzzle ==
    \A g \in DoneCalls :
        procs[g].fn = "getPuzzleByShareCode" =>
            \A c \in procs[g].after :
                procs[c].shareCode = procs[g].shareCode =>
                    procs[g].result = NewPuzzle(procs[c])

\* C27: every shareCodes entry of the database names an id present under puzzles,
\* at every moment of every interleaving, so a getPuzzleByShareCode call that found
\* its code never returns null.
C27_CodeAfterPuzzle ==
    /\ \A code \in DOMAIN store.shareCodes :
          store.shareCodes[code] \in DOMAIN store.puzzles
    /\ \A g \in DoneCalls :
          (procs[g].fn = "getPuzzleByShareCode" /\ procs[g].found) => procs[g].result # Null

\* C27 witness: a reader found the code of a createPuzzle call that had written its
\* share-code entry but had not returned to its caller when the reader began, and
\* got that puzzle.
C27_Witness ==
    \E g \in DoneCalls, c \in DOMAIN procs :
        /\ procs[g].fn = "getPuzzleByShareCode"
        /\ procs[c].fn = "createPuzzle"
        /\ c < g
        /\ c \notin procs[g].after
        /\ procs[g].found
        /\ procs[g].result = NewPuzzle(procs[c])

(***************************************************************************)
(* The Verify page (pages/Join.tsx): the extracted puzzle is shown in a    *)
(* read-only CrosswordGrid whose clicks, in an edit mode, toggle black     *)
(* squares or edit clue numbers.                                           *)
(***************************************************************************)
VerifySizes == {<<2, 1>>, <<2, 2>>}

\* what window.prompt returns: null when cancelled, else the text typed
PromptTexts ==
    {<<>>, <<" ", " ">>, <<" ", "3", " ">>, <<"2", "b">>, <<"0">>, <<"-", "1">>, <<"x">>}

PromptResults ==
    {[cancelled |-> TRUE, text |-> <<>>]}
        \cup {[cancelled |-> FALSE, text |-> t] : t \in PromptTexts}

\* parseInt(s, 10) of a trimmed string: an optional sign, then the leading digits
parseInt10(s) ==
    LET signed == s # <<>> /\ s[1] \in {"-", "+"}
        digits == LeadingDigits(IF signed THEN Tail(s) ELSE s)
    IN  [isNaN |-> digits = <<>>,
         num |-> IF signed /\ s[1] = "-" THEN 0 - ParseInt(digits) ELSE ParseInt(digits)]

\* delete obj[key]
Delete(obj, key) == [k \in DOMAIN obj \ {key} |-> obj[k]]

\* blackCells.findIndex(([r, c]) => r === row && c === col), 1-based, 0 for -1
FindIndex(blackCells, row, col) ==
    IF \E i \in DOMAIN blackCells : blackCells[i] = <<row, col>>
    THEN CHOOSE i \in DOMAIN blackCells :
            /\ blackCells[i] = <<row, col>>
            /\ \A j \in 1..(i - 1) : blackCells[j] # <<row, col>>
    ELSE 0

\* blackCells.filter((_, i) => i !== cellIdx)
WithoutIndex(blackCells, cellIdx) ==
    [i \in 1..(Len(blackCells) - 1) |->
        IF i < cellIdx THEN blackCells[i] ELSE blackCells[i + 1]]

\* a toggle that leaves the clue number of the blackened cell in place
handleToggleBlackCellKeepingNumber(prev, row, col) ==
    LET cellIdx == FindIndex(prev.blackCells, row, col)
    IN  IF cellIdx >= 1
        THEN [prev EXCEPT !.blackCells = WithoutIndex(@, cellIdx)]
        ELSE [prev EXCEPT !.blackCells = Append(@, <<row, col>>)]

\* the state update of handleToggleBlackCell
handleToggleBlackCell(prev, row, col) ==
    LET cellIdx == FindIndex(prev.blackCells, row, col)
    IN  IF cellIdx >= 1
        THEN [prev EXCEPT !.blackCells = WithoutIndex(@, cellIdx)]
        ELSE [prev EXCEPT !.blackCells = Append(@, <<row, col>>),
                          !.clueNumbers = Delete(@, PosKey(row, col))]

\* the state update of handleEditClueNumber once prompt returned the text input
handleEditClueNumber(prev, row, col, input) ==
    LET key == PosKey(row, col)
        parsed == parseInt10(Trim(input))
    IN  IF Trim(input) = <<>>
        THEN [prev EXCEPT !.clueNumbers = Delete(@, key)]
        ELSE IF ~parsed.isNaN /\ parsed.num > 0
             THEN [prev EXCEPT !.clueNumbers = Put(@, key, parsed.num)]
             ELSE prev

\* the tempPuzzle the page renders: the grid fields of puzzleData
TempPuzzle(data) == [gridSize |-> data.gridSize, blackCells |-> data.blackCells]

\* black-cell lists as the extraction leaves them: any order, repeats possible
ExtractedBlackLists(size) ==
    UNION {[1..n -> GridCells(size[1], size[2])] : n \in 0..MaxBlack}

ExtractedClueNumbers(size) ==
    UNION {[{PosKey(cell[1], cell[2]) : cell \in K} -> {1}] :
              K \in {X \in SUBSET GridCells(size[1], size[2]) : Cardinality(X) <= 2}}

InitVerify ==
    /\ pc = "verify"
    /\ call = [fn |-> "Verify", args |-> <<>>]
    /\ ret = [error |-> FALSE, value |-> EmptyObj]
    /\ ParserIdle
    /\ StoreIdle
    /\ \E size \in VerifySizes :
          \E B \in ExtractedBlackLists(size), N \in ExtractedClueNumbers(size) :
             puzzleData = [gridSize |-> size, blackCells |-> B, clueNumbers |-> N]
    /\ editMode = "none"
    /\ puzzle = TempPuzzle(puzzleData)
    /\ selectedCell = NoCell
    /\ direction = "across"
    /\ sent = NoWrite

\* the buttons "Toggle Black Squares" and "Edit Clue Numbers"
SetEditMode(mode) ==
    /\ pc = "verify"
    /\ editMode' = IF editMode = mode THEN "none" ELSE mode
    /\ UNCHANGED <<pc, call, ret, loc, puzzle, selectedCell, direction, sent,
                   storeVars, puzzleData>>

\* handleCellClick of the grid in black-square mode
ClickToggleBlackCell(row, col) ==
    /\ pc = "verify"
    /\ editMode = "blackCells"
    /\ puzzleData' = handleToggleBlackCell(puzzleData, row, col)
    /\ puzzle' = TempPuzzle(puzzleData')
    /\ UNCHANGED <<pc, call, ret, loc, selectedCell, direction, sent, storeVars, editMode>>

\* handleCellClick of the grid in clue-number mode
ClickEditClueNumber(row, col) ==
    /\ pc = "verify"
    /\ editMode = "numbers"
    /\ \E input \in PromptResults :
          puzzleData' =
              IF isBlackCell(row, col) \/ input.cancelled THEN puzzleData
              ELSE handleEditClueNumber(puzzleData, row, col, input.text)
    /\ puzzle' = TempPuzzle(puzzleData')
    /\ UNCHANGED <<pc, call, ret, loc, selectedCell, direction, sent, storeVars, editMode>>

\* handleCellClick of the grid outside the edit modes: the grid is not editable
ClickReadOnly ==
    /\ pc = "verify"
    /\ editMode = "none"
    /\ UNCHANGED vars

VerifyCells == GridCells(puzzleData.gridSize[1], puzzleData.gridSize[2])

NextVerify ==
    \/ \E mode \in {"blackCells", "numbers"} : SetEditMode(mode)
    \/ \E cell \in VerifyCells : ClickToggleBlackCell(cell[1], cell[2])
    \/ \E cell \in VerifyCells : ClickEditClueNumber(cell[1], cell[2])
    \/ ClickReadOnly

SpecVerify == InitVerify /\ [][NextVerify]_vars

\* claim helpers
BlackIn(data, row, col) == \E i \in DOMAIN data.blackCells : data.blackCells[i] = <<row, col>>

NumberedIn(data, row, col) == PosKey(row, col) \in DOMAIN data.clueNumbers

NoBlackNumbered(data) ==
    \A i \in DOMAIN data.blackCells :
        ~NumberedIn(data, data.blackCells[i][1], data.blackCells[i][2])

NumberChangedAt(row, col) ==
    \/ NumberedIn(puzzleData, row, col) # NumberedIn(puzzleData', row, col)
    \/ /\ NumberedIn(puzzleData, row, col)
       /\ puzzleData.clueNumbers[PosKey(row, col)] # puzzleData'.clueNumbers[PosKey(row, col)]

\* C22: a click on a cell in black-square mode makes a white cell black and a
\* black cell white, for every extracted puzzle and every cell.
C22_ClickFlipsCell ==
    [][\A cell \in VerifyCells :
          ClickToggleBlackCell(cell[1], cell[2]) =>
              (BlackIn(puzzleData', cell[1], cell[2]) # BlackIn(puzzleData, cell[1], cell[2]))]_vars

\* C29: a cell that turns black loses its clue number; a clue number changes only
\* on a white cell in clue-number mode, and a number that is set is an integer
\* of at least 1; a step from a puzzle with no cell both black and numbered
\* leads to a puzzle with no such cell.
C29_BlackCellsUnnumbered ==
    [][/\ NoBlackNumbered(puzzleData) => NoBlackNumbered(puzzleData')
       /\ \A cell \in VerifyCells :
             /\ (~BlackIn(puzzleData, cell[1], cell[2]) /\ BlackIn(puzzleData', cell[1], cell[2]))
                   => ~NumberedIn(puzzleData', cell[1], cell[2])
             /\ (NumberChangedAt(cell[1], cell[2]) /\ BlackIn(puzzleData', cell[1], cell[2]))
                   => ~NumberedIn(puzzleData', cell[1], cell[2])
             /\ (NumberChangedAt(cell[1], cell[2]) /\ NumberedIn(puzzleData', cell[1], cell[2]))
                   => /\ editMode = "numbers"
                      /\ ~BlackIn(puzzleData, cell[1], cell[2])
                      /\ puzzleData'.clueNumbers[PosKey(cell[1], cell[2])] \in Nat \ {0}]_vars

\* C29 witness: the list of black cells is longer than any extracted one, so a
\* click has turned a cell black; cell (0,1) carries the number 3 typed into the
\* prompt; no black cell carries a number.
C29_Witness ==
    /\ puzzleData.gridSize = <<2, 2>>
    /\ Len(puzzleData.blackCells) > MaxBlack
    /\ NumberedIn(puzzleData, 0, 1)
    /\ puzzleData.clueNumbers[PosKey(0, 1)] = 3
    /\ NoBlackNumbered(puzzleData)

(***************************************************************************)
(* Further properties of parseTableMarkdown.                               *)
(***************************************************************************)
\* the isolated upper-case letters of the cell at scan position (i, j)
IsolatedLetters(i, j) == {CellText(i, j)[k] : k \in IsolatedUpperAt(CellText(i, j))}

\* the scan positions of the table
TScan == {<<i, j>> \in (0..(Len(TRows) - 1)) \X (0..1) : j < Len(TRows[i + 1])}

\* C23: every cell whose text holds exactly one isolated upper-case letter and not
\* "square" puts a letter at its position (the grounding map's, else its scan
\* position) in preFilledLetters, and that letter is its own unless another such
\* cell is recorded at the same position.
C23_LetterRecorded ==
    pc = "done" =>
        \A p \in TScan :
            (Cardinality(IsolatedLetters(p[1], p[2])) = 1
                /\ ~ContainsSquare(CellText(p[1], p[2])))
            => LET t == TargetPosition(p[1], p[2])
                   key == PosKey(t[1], t[2])
               IN  /\ key \in DOMAIN ret.value.preFilledLetters
                   /\ \E q \in TScan :
                         /\ TargetPosition(q[1], q[2]) = t
                         /\ ret.value.preFilledLetters[key] \in IsolatedLetters(q[1], q[2])

\* C24: the width is the number of cells of the first row element and the height
\* the number of row elements, for every table; a first row without cells gives
\* width 0 whatever the later rows hold.
C24_WidthOfFirstRow ==
    pc = "done" =>
        ret.value.gridSize =
            <<IF Len(TRows) = 0 THEN 0 ELSE Len(TRows[1]), Len(TRows)>>

(***************************************************************************)
(* Grids that come from a figure chunk.                                    *)
(***************************************************************************)
XFromFigure == pc = "done" /\ ~ret.error /\ "table" \notin XTypes /\ "figure" \in XTypes

XBlackKeys ==
    {PosKey(ret.value.blackCells[i][1], ret.value.blackCells[i][2]) :
        i \in DOMAIN ret.value.blackCells}

XNumbersDerived == DOMAIN XParsedGrid.clueNumbers = {}

\* C26: in a record whose grid comes from a figure chunk no cell is both in
\* blackCells and in clueNumbers, whether the clue numbers were parsed from the
\* figure or derived; derived numbers sit on cells inside the grid.
C26_FigureBlackUnnumbered ==
    XFromFigure =>
        /\ XBlackKeys \cap DOMAIN ret.value.clueNumbers = {}
        /\ XNumbersDerived =>
              \A key \in DOMAIN ret.value.clueNumbers :
                  \E cell \in GridCells(ret.value.gridSize[1], ret.value.gridSize[2]) :
                      key = PosKey(cell[1], cell[2])

\* C26 witness: a figure with a black cell and no numbers, and clue texts from
\* which numbers were derived for other cells.
C26_Witness ==
    /\ XFromFigure
    /\ XNumbersDerived
    /\ ret.value.blackCells # <<>>
    /\ Cardinality(DOMAIN ret.value.clueNumbers) >= 2

(***************************************************************************)
(* Collaboration on one stored puzzle: the editable CrosswordGrid of one   *)
(* user, a second user, and the database.  A set() call is issued without  *)
(* being awaited: it joins the issuing client's pending writes, which the  *)
(* database applies one at a time, each client's in the order issued.      *)
(***************************************************************************)
MaxPending == 3

PuzzleId == <<"p", "1">>

OtherUserId == <<"u", "2">>

Users == {UserId, OtherUserId}

\* values of Date.now()
Timestamps == {1, 2}

\* set(ref, null)
NullValue == [null |-> TRUE]

\* a write of the whole grid node that holds the one entry
updateCellSetGrid(puzzleId, row, col, letter, userId, timestamp) ==
    [puzzleId |-> puzzleId, path |-> <<"grid">>,
     value |-> Put(EmptyObj, PosKey(row, col),
                   [letter |-> [i \in DOMAIN letter |-> ToUpper(letter[i])],
                    timestamp |-> timestamp, userId |-> userId])]

\* the set() call of updateCell
updateCellSet(puzzleId, row, col, letter, userId, timestamp) ==
    [puzzleId |-> puzzleId, path |-> <<"grid", PosKey(row, col)>>,
     value |-> [letter |-> [i \in DOMAIN letter |-> ToUpper(letter[i])],
                timestamp |-> timestamp, userId |-> userId]]

\* the set() call of updateCursor
updateCursor(puzzleId, userId, row, col, timestamp) ==
    [puzzleId |-> puzzleId, path |-> <<"cursors", userId>>,
     value |-> [row |-> row, col |-> col, timestamp |-> timestamp]]

\* the set() call of removeCursor
removeCursor(puzzleId, userId) ==
    [puzzleId |-> puzzleId, path |-> <<"cursors", userId>>, value |-> NullValue]

\* the effect publishing first and its cleanup second
CursorEffectUpdateFirst(cell, timestamp) ==
    <<updateCursor(PuzzleId, UserId, cell.row, cell.col, timestamp),
      removeCursor(PuzzleId, UserId)>>

\* the cursor effect after a change of selectedCell: the cleanup of the previous
\* run, then the new run
CursorEffect(cell, timestamp) ==
    <<removeCursor(PuzzleId, UserId),
      updateCursor(PuzzleId, UserId, cell.row, cell.col, timestamp)>>

\* the database applies one set(): the node at the path is replaced, or removed
ApplyWrite(db, write) ==
    LET stored == db.puzzles[write.puzzleId]
        node == write.path[1]
        value == IF Len(write.path) = 1 THEN write.value
                 ELSE IF write.value = NullValue THEN Delete(stored[node], write.path[2])
                 ELSE Put(stored[node], write.path[2], write.value)
    IN  [db EXCEPT !.puzzles = Put(@, write.puzzleId, [stored EXCEPT ![node] = value])]

\* the puzzle as createPuzzle stored it, joined by the second user
StoredPuzzle ==
    [id |-> PuzzleId, shareCode |-> <<"A", "1">>, data |-> 1,
     grid |-> EmptyObj, cursors |-> EmptyObj,
     collaborators |-> [u \in Users |-> TRUE]]

CollabGrids == {[gridSize |-> <<2, 1>>, blackCells |-> <<>>]}

InitCollab ==
    /\ pc = "mounted"
    /\ call = [fn |-> "CrosswordGrid", args |-> <<>>]
    /\ ret = [error |-> FALSE, value |-> EmptyObj]
    /\ ParserIdle
    /\ VerifyIdle
    /\ puzzle \in CollabGrids
    /\ selectedCell = NoCell
    /\ direction = "across"
    /\ sent = NoWrite
    /\ store = [puzzles |-> Put(EmptyObj, PuzzleId, StoredPuzzle),
                shareCodes |-> Put(EmptyObj, StoredPuzzle.shareCode, PuzzleId)]
    /\ queue = [u \in Users |-> <<>>]
    /\ procs = EmptyObj

\* the writes a client may have pending: the second user's are issued one by one
PendingCap(userId) == IF userId = UserId THEN MaxPending ELSE 1

\* the client of userId issues writes
Issue(userId, writes) ==
    /\ Len(queue[userId]) + Len(writes) <= PendingCap(userId)
    /\ queue' = [queue EXCEPT ![userId] = @ \o writes]

\* handleCellClick on the editable grid, followed by the cursor effect when the
\* selection changed
CollabCellClick(row, col) ==
    /\ pc = "mounted"
    /\ ~isBlackCell(row, col)
    /\ IF selectedCell = [row |-> row, col |-> col]
       THEN direction' = ToggleDirection(direction) /\ UNCHANGED <<selectedCell, queue>>
       ELSE /\ selectedCell' = [row |-> row, col |-> col]
            /\ \E now \in Timestamps : Issue(UserId, CursorEffect(selectedCell', now))
            /\ UNCHANGED direction
    /\ UNCHANGED <<pc, call, ret, loc, puzzle, sent, store, procs, verifyVars>>

\* moveCell reaches setSelectedCell: it did not run off the grid
moveCellSets(rowDelta, colDelta) ==
    SkipBlackCells(Clamp(selectedCell.row + rowDelta, puzzle.gridSize[2]),
                   Clamp(selectedCell.col + colDelta, puzzle.gridSize[1]),
                   rowDelta, colDelta) # NoCell

\* handleKeyPress, e.key a letter: updateCell, moveCell, then the cursor effect
CollabLetterKey(key) ==
    /\ pc = "mounted"
    /\ selectedCell # NoCell
    /\ LET delta == IF direction = "across" THEN <<0, 1>> ELSE <<1, 0>>
       IN  /\ selectedCell' = moveCell(delta[1], delta[2])
           /\ \E now \in Timestamps, later \in Timestamps :
                 Issue(UserId,
                       <<updateCellSet(PuzzleId, selectedCell.row, selectedCell.col,
                                       <<ToUpper(key)>>, UserId, now)>>
                       \o IF moveCellSets(delta[1], delta[2])
                          THEN CursorEffect(selectedCell', later) ELSE <<>>)
    /\ sent' = updateCell(selectedCell.row, selectedCell.col, <<ToUpper(key)>>)
    /\ UNCHANGED <<pc, call, ret, loc, puzzle, direction, store, procs, verifyVars>>

\* handleKeyPress, e.key an arrow key: moveCell, then the cursor effect
CollabArrowKey(key) ==
    /\ pc = "mounted"
    /\ selectedCell # NoCell
    /\ moveCellSets(ArrowDelta(key)[1], ArrowDelta(key)[2])
    /\ selectedCell' = moveCell(ArrowDelta(key)[1], ArrowDelta(key)[2])
    /\ \E now \in Timestamps : Issue(UserId, CursorEffect(selectedCell', now))
    /\ UNCHANGED <<pc, call, ret, loc, puzzle, direction, sent, store, procs, verifyVars>>

\* the grid unmounts: the cleanup of the last effect run
Unmount ==
    /\ pc = "mounted"
    /\ pc' = "unmounted"
    /\ Issue(UserId, <<removeCursor(PuzzleId, UserId)>>)
    /\ UNCHANGED <<call, ret, loc, puzzle, selectedCell, direction, sent, store, procs,
                   verifyVars>>

WhiteCells ==
    {cell \in GridCells(puzzle.gridSize[1], puzzle.gridSize[2]) :
        ~isBlackCell(cell[1], cell[2])}

\* the grid of the second user types a letter into a cell
OtherLetterKey(cell, key) ==
    /\ \E now \in Timestamps :
          Issue(OtherUserId,
                <<updateCellSet(PuzzleId, cell[1], cell[2], <<ToUpper(key)>>,
                                OtherUserId, now)>>)
    /\ UNCHANGED <<pc, call, ret, loc, puzzle, selectedCell, direction, sent, store, procs,
                   verifyVars>>

\* the grid of the second user publishes or removes its cursor
OtherCursor(cell) ==
    /\ \E now \in Timestamps :
          \/ Issue(OtherUserId,
                   <<updateCursor(PuzzleId, OtherUserId, cell[1], cell[2], now)>>)
          \/ Issue(OtherUserId, <<removeCursor(PuzzleId, OtherUserId)>>)
    /\ UNCHANGED <<pc, call, ret, loc, puzzle, selectedCell, direction, sent, store, procs,
                   verifyVars>>

\* the database applies the oldest pending write of a client
Apply(userId) ==
    /\ queue[userId] # <<>>
    /\ store' = ApplyWrite(store, Head(queue[userId]))
    /\ queue' = [queue EXCEPT ![userId] = Tail(@)]
    /\ UNCHANGED <<pc, call, ret, loc, puzzle, selectedCell, direction, sent, procs,
                   verifyVars>>

OtherLetterKeys == {"b"}

NextCollab ==
    \/ \E cell \in WhiteCells : CollabCellClick(cell[1], cell[2])
    \/ \E key \in LetterKeys : CollabLetterKey(key)
    \/ \E key \in ArrowKeys : CollabArrowKey(key)
    \/ Unmount
    \/ \E cell \in WhiteCells, key \in OtherLetterKeys : OtherLetterKey(cell, key)
    \/ \E cell \in WhiteCells : OtherCursor(cell)
    \/ \E userId \in Users : Apply(userId)

SpecCollab == InitCollab /\ [][NextCollab]_vars

(***************************************************************************)
(* Properties of the collaboration.                                        *)
(***************************************************************************)
Stored == store.puzzles[PuzzleId]

GridKeys == {PosKey(cell[1], cell[2]) : cell \in GridCells(puzzle.gridSize[1], puzzle.gridSize[2])}

IsCellWrite(write) == write.path[1] = "grid"

\* the letters a user's keyboard sends, as handleKeyPress passes them
TypedBy(userId) ==
    {<<ToUpper(key)>> : key \in IF userId = UserId THEN LetterKeys ELSE OtherLetterKeys}

\* a whole entry of one updateCell call of userId
EntryOf(entry, userId) ==
    /\ DOMAIN entry = {"letter", "timestamp", "userId"}
    /\ entry.userId = userId
    /\ entry.letter \in TypedBy(userId)
    /\ \A i \in DOMAIN entry.letter : IsUpper(entry.letter[i])
    /\ entry.timestamp \in Timestamps

\* the step applies the cell write and changes nothing but that cell's entry
AppliesCellWrite(write) ==
    /\ Len(write.path) = 2
    /\ write.path[2] \in DOMAIN Stored'.grid
    /\ Stored'.grid[write.path[2]] = write.value
    /\ \A key \in (DOMAIN Stored.grid \cup DOMAIN Stored'.grid) \ {write.path[2]} :
          /\ key \in DOMAIN Stored.grid
          /\ key \in DOMAIN Stored'.grid
          /\ Stored'.grid[key] = Stored.grid[key]
    /\ Stored'.cursors = Stored.cursors
    /\ Stored'.collaborators = Stored.collaborators
    /\ Stored'.id = Stored.id
    /\ Stored'.shareCode = Stored.shareCode
    /\ Stored'.data = Stored.data
    /\ DOMAIN store'.puzzles = DOMAIN store.puzzles
    /\ store'.shareCodes = store.shareCodes

CursorOf(db, userId) ==
    IF userId \in DOMAIN db.puzzles[PuzzleId].cursors
    THEN db.puzzles[PuzzleId].cursors[userId]
    ELSE NullValue

\* C30: once every write this client issued is applied, its cursor entry in the
\* database is the selected cell while the grid is mounted with a selection, and
\* is absent otherwise (nothing selected yet, or unmounted); a user's cursor entry
\* changes only when the database applies a cursor write of that same user.
C30_CursorFollowsSelection ==
    /\ [](queue[UserId] = <<>> =>
            IF pc = "mounted" /\ selectedCell # NoCell
            THEN /\ CursorOf(store, UserId) # NullValue
                 /\ CursorOf(store, UserId).row = selectedCell.row
                 /\ CursorOf(store, UserId).col = selectedCell.col
            ELSE CursorOf(store, UserId) = NullValue)
    /\ [][\A userId \in Users :
            CursorOf(store', userId) # CursorOf(store, userId) =>
                /\ queue[userId] # <<>>
                /\ Head(queue[userId]).path = <<"cursors", userId>>
                /\ queue'[userId] = Tail(queue[userId])
                /\ \A other \in Users \ {userId} : queue'[other] = queue[other]]_vars

\* C30 witness: the user typed a letter and the selection moved on to cell (0,1);
\* all its writes are applied and its cursor entry is (0,1), next to the second
\* user's cursor entry.
C30_Witness ==
    /\ pc = "mounted"
    /\ queue[UserId] = <<>>
    /\ sent # NoWrite
    /\ selectedCell = [row |-> 0, col |-> 1]
    /\ CursorOf(store, UserId) # NullValue
    /\ CursorOf(store, UserId).row = 0
    /\ CursorOf(store, UserId).col = 1
    /\ CursorOf(store, OtherUserId) # NullValue

====
